---- MODULE Spec2Model ----
(***************************************************************************)
(* Model of pm-email-validator's network core: the SMTP probe session      *)
(* (src/core/smtp.ts, src/core/catchAll.ts), the sliding-window            *)
(* RateLimiter (src/core/limiter.ts), the DnsCache (src/core/cache.ts) and *)
(* probeSmtp's admission / MX-host loop.                                   *)
(*                                                                         *)
(* Each component has its own specification over the shared variables:     *)
(*   SpecSession  one probe session driven by socket and timer events      *)
(*   SpecLimiter  RateLimiter.allow under an advancing clock               *)
(*   SpecCache    DnsCache.get / DnsCache.set under an advancing clock     *)
(*   SpecProbe    concurrent probeSmtp calls sharing one RateLimiter       *)
(* The variables a specification does not use keep their initial value.    *)
(***************************************************************************)
EXTENDS Integers, Sequences, FiniteSets, TLC

VARIABLES
    sess,       \* the probe session: closure state of connectAndProbe / smtpCatchAllProbe
    cause,      \* history: the event that resolved the session
    lastEv,     \* history: the last event delivered to the session
    now,        \* Date.now()
    limiter,    \* the shared RateLimiter: limit, windowMs, buckets (key -> timestamps)
    lastAllow,  \* history: the last allow() call, its pruned bucket and its return value
    admitted,   \* history: key -> list of the times at which allow() returned true
    store,      \* DnsCache.store : Map in insertion order, a list of [key, data, expiresAt]
    lastOp,     \* history: the last cache operation and what it returned
    lastSet,    \* history: key -> the last set() of the key, while its entry is in the store
    touchOrder, \* history: the keys in the store, least recently touched first
    calls,      \* probeSmtp / checkCatchAll calls: position, MX hosts, host index, session, result
    netlog,     \* history: network I/O of the probeSmtp calls (DNS queries, connections)
    dns,        \* checkDNS calls: toggles, the five lookups' promises, the DnsResult
    queries,    \* cache key -> number of underlying DNS queries in flight
    completed,  \* history: cache key -> envelope of the last completed lookup, while cached
    run,        \* the validation call: position in runValidation, its locals, its result
    pools,      \* limiterPool and dnsCachePool of verify.ts, and the instances the calls used
    job         \* the verifyEmailBatch / verifyEmailStream call and the validations it started

sessVars  == <<sess, cause, lastEv>>
limVars   == <<limiter, lastAllow, admitted>>
cacheVars == <<store, lastOp, lastSet, touchOrder>>
probeVars == <<calls, netlog>>
dnsVars   == <<dns, queries, completed>>
runVars   == <<run, pools, job>>
vars      == <<sess, cause, lastEv, now, limiter, lastAllow, admitted, store, lastOp, lastSet, touchOrder,
              calls, netlog, dns, queries, completed, run, pools, job>>

(***************************************************************************)
(* Text: a line is a sequence of one-character strings; a chunk is the     *)
(* list of lines of one received buffer.                                   *)
(***************************************************************************)
Digits == {"0", "1", "2", "3", "4", "5", "6", "7", "8", "9"}

\* code undefined
NoCode == ""

\* line.match(/^(\d{3})/)?.[1]
parseCode(line) ==
    IF Len(line) >= 3 /\ \A i \in 1..3 : line[i] \in Digits
    THEN line[1] \o line[2] \o line[3]
    ELSE NoCode

\* String.prototype.startsWith
startsWith(line, prefix) ==
    Len(line) >= Len(prefix) /\ SubSeq(line, 1, Len(prefix)) = prefix

\* text.trim().split(/\r?\n/).pop() ?? "" : the last line once the blank
\* lines at the end of the buffer are trimmed away ("" for a blank buffer)
RECURSIVE lastLineOf(_)
lastLineOf(chunk) ==
    IF chunk = <<>> THEN <<>>
    ELSE IF chunk[Len(chunk)] = <<>> THEN lastLineOf(SubSeq(chunk, 1, Len(chunk) - 1))
    ELSE chunk[Len(chunk)]

\* the reply lines a server is modelled to send
ReplyLines ==
    { <<"2", "2", "0", " ", "m", "x">>,
      <<"2", "5", "0", " ", "o", "k">>,
      <<"2", "5", "1">>,
      <<"4", "5", "0", " ", "g">>,
      <<"5", "5", "0", " ", "n", "o">>,
      <<"5", "5", "1">>,
      <<"5", "5", "2">>,
      <<"5", "5", "3">>,
      <<"2", "5", "x", "0">>,
      <<>> }

\* the longest buffer, in lines
MaxChunkLines == 2

Chunks == UNION { [1..n -> ReplyLines] : n \in 1..MaxChunkLines }

(***************************************************************************)
(* The probe session.  kind "mailbox" is connectAndProbe, kind "catchall"  *)
(* is smtpCatchAllProbe.  emitsEnd says whether socket.destroy() emits     *)
(* "end" synchronously (the test's mock socket does, net.Socket does not). *)
(***************************************************************************)
Kinds == {"mailbox", "catchall"}

\* the address the probes are run for
Email == "user@example.com"

\* the promise's value before resolve() is called
Pending(kind) ==
    IF kind = "mailbox"
    THEN [status |-> "pending", code |-> NoCode]
    ELSE [accepts |-> FALSE, code |-> NoCode, error |-> "pending"]

\* the state right after `new Promise((resolve) => { ... })` has run, in a
\* probe for the address email
NewSessionFor(kind, emitsEnd, email) ==
    [ kind         |-> kind,
      emitsEnd     |-> emitsEnd,
      email        |-> email,
      stage        |-> "greet",
      resolved     |-> FALSE,
      timer        |-> "armed",
      open         |-> TRUE,
      written      |-> <<>>,
      result       |-> Pending(kind),
      resolveCount |-> 0,
      destroyCount |-> 0 ]

NewSession(kind, emitsEnd) == NewSessionFor(kind, emitsEnd, Email)

\* socket.write(`${cmd}\r\n`)
send(s, cmd) == [s EXCEPT !.written = Append(@, cmd \o "\r\n")]

\* clearTimeout(timer): a timer that has fired stays fired
clearTimeout(s) == [s EXCEPT !.timer = IF @ = "armed" THEN "cleared" ELSE @]

\* mailbox results
Valid(code)   == [status |-> "valid", code |-> code]
Invalid(code) == [status |-> "invalid", code |-> code]
Unknown(code) == [status |-> "unknown", code |-> code]

\* catch-all results; error "" is error undefined
CatchAll(accepts, code, error) == [accepts |-> accepts, code |-> code, error |-> error]

RECURSIVE done(_, _), destroy(_), onEnd(_)

\* the value the "end" handler resolves with
EndResult(kind) ==
    IF kind = "mailbox" THEN Unknown(NoCode) ELSE CatchAll(FALSE, NoCode, "connection_closed")

\* socket.on("end", ...)
onEnd(s) == done(clearTimeout(s), EndResult(s.kind))

\* socket.destroy(); a mock socket emits "end" from inside it
destroy(s) ==
    LET d == [s EXCEPT !.destroyCount = @ + 1, !.open = FALSE]
    IN  IF s.emitsEnd THEN onEnd(d) ELSE d

\* a done that forgets to destroy the socket
doneWithoutDestroy(s, result) ==
    IF s.resolved THEN s
    ELSE [s EXCEPT !.resolved = TRUE, !.result = result, !.resolveCount = @ + 1]

\* const done = (result) => { if (resolved) return; resolved = true; socket.destroy(); resolve(result); }
done(s, result) ==
    IF s.resolved THEN s
    ELSE LET d == destroy([s EXCEPT !.resolved = TRUE])
         IN  [d EXCEPT !.result = result, !.resolveCount = @ + 1]

\* the value the timer resolves with
TimeoutResult(kind) ==
    IF kind = "mailbox" THEN Unknown(NoCode) ELSE CatchAll(FALSE, NoCode, "timeout")

\* a timer callback that takes silence for an answer
onTimerDecides(s) ==
    done([s EXCEPT !.timer = "fired"],
         IF s.kind = "mailbox" THEN Invalid(NoCode) ELSE CatchAll(TRUE, NoCode, ""))

\* a timer callback that forgets to call done
onTimerIdle(s) == [s EXCEPT !.timer = "fired"]

\* setTimeout(() => { done(...) }, timeoutMs)
onTimer(s) == done([s EXCEPT !.timer = "fired"], TimeoutResult(s.kind))

\* the value the "error" handler resolves with (err.message is "error")
ErrorResult(kind) ==
    IF kind = "mailbox" THEN Unknown(NoCode) ELSE CatchAll(FALSE, NoCode, "error")

\* socket.on("error", ...)
onError(s) == done(clearTimeout(s), ErrorResult(s.kind))

HELO     == "HELO localhost"
MAILFROM == "MAIL FROM:<probe@localhost>"
RcptTo(email) == "RCPT TO:<" \o email \o ">"
RCPT     == RcptTo(Email)
QUIT     == "QUIT"

\* early stages that go from helo straight to RCPT TO
earlyStagesSkipsMail(s, lastLine) ==
    IF s.stage = "greet"
    THEN [send(s, HELO) EXCEPT !.stage = "helo"]
    ELSE IF s.stage = "helo" /\ startsWith(lastLine, <<"2", "5", "0">>)
    THEN [send(s, RcptTo(s.email)) EXCEPT !.stage = "rcpt"]
    ELSE IF s.stage = "mailfrom" /\ startsWith(lastLine, <<"2", "5", "0">>)
    THEN [send(s, RcptTo(s.email)) EXCEPT !.stage = "rcpt"]
    ELSE s

\* early stages that greet only a server whose banner is a 2xx reply
earlyStagesGreetStrict(s, lastLine) ==
    IF s.stage = "greet"
    THEN IF startsWith(lastLine, <<"2">>) THEN [send(s, HELO) EXCEPT !.stage = "helo"] ELSE s
    ELSE IF s.stage = "helo" /\ startsWith(lastLine, <<"2", "5", "0">>)
    THEN [send(s, MAILFROM) EXCEPT !.stage = "mailfrom"]
    ELSE IF s.stage = "mailfrom" /\ startsWith(lastLine, <<"2", "5", "0">>)
    THEN [send(s, RcptTo(s.email)) EXCEPT !.stage = "rcpt"]
    ELSE s

\* the greet, helo and mailfrom stages, the same in both probes
earlyStages(s, lastLine) ==
    IF s.stage = "greet"
    THEN [send(s, HELO) EXCEPT !.stage = "helo"]
    ELSE IF s.stage = "helo" /\ startsWith(lastLine, <<"2", "5", "0">>)
    THEN [send(s, MAILFROM) EXCEPT !.stage = "mailfrom"]
    ELSE IF s.stage = "mailfrom" /\ startsWith(lastLine, <<"2", "5", "0">>)
    THEN [send(s, RcptTo(s.email)) EXCEPT !.stage = "rcpt"]
    ELSE s

\* whether one of the three early branches returned
earlyReturned(s, lastLine) ==
    \/ s.stage = "greet"
    \/ s.stage = "helo" /\ startsWith(lastLine, <<"2", "5", "0">>)
    \/ s.stage = "mailfrom" /\ startsWith(lastLine, <<"2", "5", "0">>)

\* the classification `clearTimeout(timer); send("QUIT"); stage = "done"; done(r)`
classify(s, r) == done([send(clearTimeout(s), QUIT) EXCEPT !.stage = "done"], r)

\* an early rejection that drops the reply code from the result
earlyRejectNoCode(s, lastLine, r) ==
    IF startsWith(lastLine, <<"5">>)
    THEN done([clearTimeout(s) EXCEPT !.stage = "done"], [r EXCEPT !.code = NoCode])
    ELSE s

\* an early rejection that never happens: the session waits for its timer
earlyRejectStalls(s, lastLine, r) == s

\* `if (code.startsWith("5")) { clearTimeout(timer); stage = "done"; done(r) }`;
\* the code is the first three characters of lastLine
earlyReject(s, lastLine, r) ==
    IF startsWith(lastLine, <<"5">>)
    THEN done([clearTimeout(s) EXCEPT !.stage = "done"], r)
    ELSE s

\* a rcpt stage that takes 552 for an explicit rejection too
mailboxRcptLoose(s, lastLine, code) ==
    IF startsWith(lastLine, <<"2", "5", "0">>) THEN classify(s, Valid(code))
    ELSE IF startsWith(lastLine, <<"5", "5">>) THEN classify(s, Invalid(code))
    ELSE IF startsWith(lastLine, <<"4">>) THEN classify(s, Unknown(code))
    ELSE earlyReject(s, lastLine, Unknown(code))

\* connectAndProbe, `if (stage === "rcpt") { ... }` and the test that follows it
mailboxRcpt(s, lastLine, code) ==
    IF startsWith(lastLine, <<"2", "5", "0">>) THEN classify(s, Valid(code))
    ELSE IF \/ startsWith(lastLine, <<"5", "5", "0">>)
            \/ startsWith(lastLine, <<"5", "5", "1">>)
            \/ startsWith(lastLine, <<"5", "5", "3">>) THEN classify(s, Invalid(code))
    ELSE IF startsWith(lastLine, <<"4">>) THEN classify(s, Unknown(code))
    ELSE earlyReject(s, lastLine, Unknown(code))

\* connectAndProbe, socket.on("data", ...)
mailboxOnData(s, chunk) ==
    LET lastLine == lastLineOf(chunk)
        code     == parseCode(lastLine)
    IN  IF code = NoCode THEN s
        ELSE IF earlyReturned(s, lastLine) THEN earlyStages(s, lastLine)
        ELSE IF s.stage = "rcpt" THEN mailboxRcpt(s, lastLine, code)
        ELSE earlyReject(s, lastLine, Unknown(code))

\* smtpCatchAllProbe, `if (stage === "rcpt") { ... }`
catchAllRcpt(s, lastLine, code) ==
    IF startsWith(lastLine, <<"2", "5", "0">>) THEN classify(s, CatchAll(TRUE, code, ""))
    ELSE IF \/ startsWith(lastLine, <<"5", "5", "0">>)
            \/ startsWith(lastLine, <<"5", "5", "1">>)
            \/ startsWith(lastLine, <<"5", "5", "3">>) THEN classify(s, CatchAll(FALSE, code, ""))
    ELSE IF startsWith(lastLine, <<"4">>) THEN classify(s, CatchAll(FALSE, code, "temporary_error"))
    ELSE classify(s, CatchAll(FALSE, code, "unexpected_response"))

\* smtpCatchAllProbe, socket.on("data", ...)
catchAllOnData(s, chunk) ==
    LET lastLine == lastLineOf(chunk)
        code     == parseCode(lastLine)
    IN  IF code = NoCode THEN s
        ELSE IF earlyReturned(s, lastLine) THEN earlyStages(s, lastLine)
        ELSE IF s.stage = "rcpt" THEN catchAllRcpt(s, lastLine, code)
        ELSE earlyReject(s, lastLine, CatchAll(FALSE, code, "rejected_early"))

onData(s, chunk) ==
    IF s.kind = "mailbox" THEN mailboxOnData(s, chunk) ELSE catchAllOnData(s, chunk)


(***************************************************************************)
(* One probe session under every order of socket and timer events.  Events *)
(* may still be delivered after the session has resolved (an EventEmitter  *)
(* does not stop emitting when destroy() is called).                       *)
(***************************************************************************)
NoEvent == [ev |-> "none", stage |-> "greet", line |-> <<>>, wasResolved |-> FALSE]

IdleSess ==
    /\ sess = NewSession("mailbox", FALSE)
    /\ cause = NoEvent
    /\ lastEv = NoEvent

\* deliver one event: s2 is the session after the handler has run
Deliver(ev, line, s2) ==
    LET e == [ev |-> ev, stage |-> sess.stage, line |-> line, wasResolved |-> sess.resolved]
    IN  /\ sess' = s2
        /\ lastEv' = e
        /\ cause' = IF ~sess.resolved /\ s2.resolved THEN e ELSE cause

SessData ==
    \E chunk \in Chunks : Deliver("data", lastLineOf(chunk), onData(sess, chunk))

SessError == Deliver("error", <<>>, onError(sess))

SessEnd == Deliver("end", <<>>, onEnd(sess))

SessTimer ==
    /\ sess.timer = "armed"
    /\ Deliver("timer", <<>>, onTimer(sess))


(***************************************************************************)
(* RateLimiter (src/core/limiter.ts).  A limiter is its two constructor    *)
(* arguments and its buckets; a key without a bucket reads as [].          *)
(***************************************************************************)
\* the longest run of the clock
MaxTime == 4

Times == 0..MaxTime

\* the keys (domains) of the limiter
Keys == {"a.com", "b.com"}

\* new RateLimiter(limit, windowMs)
RateLimiter(limit, windowMs) ==
    [limit |-> limit, windowMs |-> windowMs, buckets |-> [k \in Keys |-> <<>>]]

\* an allow that compares with > where the code compares with >=
allowOffByOne(lim, key, t) ==
    LET windowStart == t - lim.windowMs
        existing    == lim.buckets[key]
        fresh       == SelectSeq(existing, LAMBDA ts : ts >= windowStart)
    IN  IF Len(fresh) > lim.limit
        THEN [lim |-> [lim EXCEPT !.buckets[key] = fresh], ret |-> FALSE]
        ELSE [lim |-> [lim EXCEPT !.buckets[key] = Append(fresh, t)], ret |-> TRUE]

\* an allow that never prunes
allowNoPrune(lim, key, t) ==
    LET existing == lim.buckets[key]
    IN  IF Len(existing) >= lim.limit
        THEN [lim |-> lim, ret |-> FALSE]
        ELSE [lim |-> [lim EXCEPT !.buckets[key] = Append(existing, t)], ret |-> TRUE]

\* RateLimiter.allow(key) at Date.now() = t: the limiter after the call and
\* the value returned
allow(lim, key, t) ==
    LET windowStart == t - lim.windowMs
        existing    == lim.buckets[key]
        fresh       == SelectSeq(existing, LAMBDA ts : ts >= windowStart)
    IN  IF Len(fresh) >= lim.limit
        THEN [lim |-> [lim EXCEPT !.buckets[key] = fresh], ret |-> FALSE]
        ELSE [lim |-> [lim EXCEPT !.buckets[key] = Append(fresh, t)], ret |-> TRUE]

\* the limiter of the limiter specification: new RateLimiter(Limit, WindowMs)
Limit == 2

WindowMs == 2

NoAllow == [called |-> FALSE, key |-> "a.com", at |-> 0, ret |-> FALSE,
            before |-> [k \in Keys |-> <<>>]]

IdleLim ==
    /\ limiter = RateLimiter(Limit, WindowMs)
    /\ lastAllow = NoAllow
    /\ admitted = [k \in Keys |-> <<>>]

\* the clock advances; Date.now() is read by whoever runs next
Tick ==
    /\ now < MaxTime
    /\ now' = now + 1

\* one allow(key) call, by whichever validation is running
Allow ==
    \E key \in Keys :
        LET r == allow(limiter, key, now)
        IN  /\ limiter' = r.lim
            /\ lastAllow' = [called |-> TRUE, key |-> key, at |-> now, ret |-> r.ret,
                             before |-> limiter.buckets]
            /\ admitted' = IF r.ret THEN [admitted EXCEPT ![key] = Append(@, now)]
                           ELSE admitted


(***************************************************************************)
(* DnsCache (src/core/cache.ts).  The store is a Map: a list of entries in *)
(* insertion order, one per key.                                           *)
(***************************************************************************)
\* the keys resolveCached uses: makeCacheKey(kind, name), never empty
CacheKeys == {"MX:a.com", "A:a.com", "AAAA:a.com", "TXT:a.com"}

CacheData == {"v1", "v2"}

\* new DnsCache({ maxEntries: MaxEntries, ttlMs: TtlMs })
MaxEntries == 2

TtlMs == 2

\* the ttlMs argument of set: absent, or a number of ticks
TtlArgs == {[given |-> FALSE, ms |-> 0], [given |-> TRUE, ms |-> 1]}

\* this.store.has(key)
has(st, key) == \E i \in 1..Len(st) : st[i].key = key

\* this.store.get(key), for a key the store has
entryOf(st, key) == st[CHOOSE i \in 1..Len(st) : st[i].key = key]

\* this.store.delete(key)
delete(st, key) == SelectSeq(st, LAMBDA e : e.key # key)

\* get's return value undefined
Undefined == [hit |-> FALSE, data |-> "", expiresAt |-> 0]

Hit(e) == [hit |-> TRUE, data |-> e.data, expiresAt |-> e.expiresAt]

\* a get that never expires an entry
getNoExpiry(st, key, t) ==
    IF ~has(st, key) THEN [store |-> st, ret |-> Undefined]
    ELSE LET entry == entryOf(st, key)
         IN  [store |-> Append(delete(st, key), entry), ret |-> Hit(entry)]

\* a get that leaves the entry where it is in the Map
getNoRefresh(st, key, t) ==
    IF ~has(st, key) THEN [store |-> st, ret |-> Undefined]
    ELSE LET entry == entryOf(st, key)
         IN  IF t > entry.expiresAt
             THEN [store |-> delete(st, key), ret |-> Undefined]
             ELSE [store |-> st, ret |-> Hit(entry)]

\* DnsCache.get(key) at Date.now() = t: the store after the call and the value returned
get(st, key, t) ==
    IF ~has(st, key) THEN [store |-> st, ret |-> Undefined]
    ELSE LET entry == entryOf(st, key)
         IN  IF t > entry.expiresAt
             THEN [store |-> delete(st, key), ret |-> Undefined]
             ELSE [store |-> Append(delete(st, key), entry), ret |-> Hit(entry)]

\* a set that keeps the entry a key already has
setKeepsFirst(st, key, data, ttl, t) ==
    LET entry  == [key |-> key, data |-> data,
                   expiresAt |-> t + (IF ttl.given THEN ttl.ms ELSE TtlMs)]
        put    == Append(st, entry)
        oldest == put[1].key
    IN  IF has(st, key) THEN st
        ELSE IF Len(put) > MaxEntries /\ oldest # "" THEN delete(put, oldest) ELSE put

\* DnsCache.set(key, data, ttlMs) at Date.now() = t: the store after the call
set(st, key, data, ttl, t) ==
    LET entry  == [key |-> key, data |-> data,
                   expiresAt |-> t + (IF ttl.given THEN ttl.ms ELSE TtlMs)]
        put    == Append(IF has(st, key) THEN delete(st, key) ELSE st, entry)
        oldest == put[1].key
    IN  IF Len(put) > MaxEntries /\ oldest # "" THEN delete(put, oldest) ELSE put

\* the keys of a store, in Map order
keysOf(st) == [i \in 1..Len(st) |-> st[i].key]

keySet(st) == {st[i].key : i \in 1..Len(st)}

\* a key moves to the most recent place of the touch order
touch(order, key) == Append(SelectSeq(order, LAMBDA k : k # key), key)

NoSet == [live |-> FALSE, data |-> "", expiresAt |-> 0]

NoOp == [op |-> "none", key |-> "MX:a.com", ret |-> Undefined, priorLive |-> FALSE,
         evicted |-> {}]

\* the longest run of the clock of the cache specification
CacheMaxTime == 2

\* the clock advances
CacheTick ==
    /\ now < CacheMaxTime
    /\ now' = now + 1

IdleCache ==
    /\ store = <<>>
    /\ lastOp = NoOp
    /\ lastSet = [k \in CacheKeys |-> NoSet]
    /\ touchOrder = <<>>

\* the history after an operation that left the store st2: the keys that
\* left the store are forgotten
Remember(ls, order, st2) ==
    /\ lastSet' = [k \in CacheKeys |-> IF k \in keySet(st2) THEN ls[k] ELSE NoSet]
    /\ touchOrder' = SelectSeq(order, LAMBDA k : k \in keySet(st2))

\* one get(key) call
Get ==
    \E key \in CacheKeys :
        LET r == get(store, key, now)
        IN  /\ store' = r.store
            /\ lastOp' = [op |-> "get", key |-> key, ret |-> r.ret,
                          priorLive |-> lastSet[key].live,
                          evicted |-> keySet(store) \ keySet(r.store)]
            /\ Remember(lastSet, IF r.ret.hit THEN touch(touchOrder, key) ELSE touchOrder,
                        r.store)

\* one set(key, data, ttlMs) call
Set ==
    \E key \in CacheKeys, data \in CacheData, ttl \in TtlArgs :
        LET st2 == set(store, key, data, ttl, now)
            exp == now + (IF ttl.given THEN ttl.ms ELSE TtlMs)
        IN  /\ store' = st2
            /\ lastOp' = [op |-> "set", key |-> key, ret |-> Undefined,
                          priorLive |-> lastSet[key].live,
                          evicted |-> keySet(store) \ keySet(st2)]
            /\ Remember([lastSet EXCEPT ![key] = [live |-> TRUE, data |-> data, expiresAt |-> exp]],
                        touch(touchOrder, key), st2)

(***************************************************************************)
(* probeSmtp (src/core/smtp.ts): admission by the shared limiter, the MX   *)
(* lookup, then one session per MX host, one after the other.  A call slot *)
(* is reused by the next call once its call has returned.                  *)
(***************************************************************************)
CallIds == {"c1", "c2"}

\* the one call slot of the sequential specifications
SeqCall == "c1"

\* the domains probed; each is a key of the limiter
ProbeDomains == {"a.com"}

\* the MX hosts a domain can have, in the order of its MX records
Hosts == <<"mx1", "mx2", "mx3", "mx4">>

\* the most MX hosts a domain has
MaxHosts == 2

\* the answers of the MX lookup: no host (no record, an error, a timeout),
\* or the first n hosts
HostLists == { SubSeq(Hosts, 1, n) : n \in 0..MaxHosts }

\* the replies of the servers probed by probeSmtp
ProbeChunks == { <<l>> : l \in { <<"2", "2", "0", " ", "m", "x">>,
                                  <<"2", "5", "0", " ", "o", "k">>,
                                  <<"4", "5", "0", " ", "g">>,
                                  <<"5", "5", "0", " ", "n", "o">> } }

\* the limiter probeSmtp is given: getLimiter(ProbeLimit), whose window of
\* 60 * 1000 ms is WindowMs ticks of the clock
ProbeLimit == 2

getLimiter(limit) == RateLimiter(limit, WindowMs)

\* the longest run of the clock of the probe specification
ProbeMaxTime == 3

\* the lookups checkDNS issues for its toggles: MX, root TXT and _dmarc TXT
\* when asked for, A and AAAA always
checkDNSQueries(opts) ==
    (IF opts.mx THEN {"MX"} ELSE {})
        \cup (IF opts.spf THEN {"TXT"} ELSE {})
        \cup (IF opts.dmarc THEN {"TXT:_dmarc"} ELSE {})
        \cup {"A", "AAAA"}

\* the toggles probeSmtp passes to checkDNS
ProbeDnsOpts == [mx |-> TRUE, spf |-> FALSE, dmarc |-> FALSE]

RateLimited == [status |-> "unknown", code |-> "rate_limited"]

\* a call slot no call is using
IdleCall ==
    [ pc        |-> "idle",
      domain    |-> "",
      admitted  |-> FALSE,
      queries   |-> {},
      mxHosts   |-> <<>>,
      i         |-> 0,
      s         |-> NewSession("mailbox", FALSE),
      result    |-> Pending("mailbox"),
      contacted |-> <<>>,
      opened    |-> 0,
      closed    |-> 0 ]

\* a denied call that has looked up the MX hosts all the same
deniedAfterLookup(k, domain) ==
    [k EXCEPT !.pc = "done", !.domain = domain, !.result = RateLimited,
              !.queries = checkDNSQueries(ProbeDnsOpts)]

\* `if (!limiter.allow(domain)) return { status: "unknown", code: "rate_limited" }`
denied(k, domain) ==
    [k EXCEPT !.pc = "done", !.domain = domain, !.result = RateLimited]

\* `await checkDNS(domain, { mx: true, spf: false, dmarc: false, ... }, cache)`:
\* the lookups are issued before the call suspends
lookup(k, domain) ==
    [k EXCEPT !.pc = "dns", !.domain = domain, !.admitted = TRUE,
              !.queries = checkDNSQueries(ProbeDnsOpts)]

\* `connectAndProbe(host, email, opts.timeoutMs)` for the i-th MX host:
\* net.createConnection(25, host) and a new session
connect(k, i) ==
    [k EXCEPT !.pc = "probing", !.i = i, !.s = NewSession("mailbox", FALSE),
              !.opened = @ + 1,
              !.contacted = Append(@, [host |-> k.mxHosts[i], outcome |-> Pending("mailbox")])]

\* the call returns
return(k, result) == [k EXCEPT !.pc = "done", !.result = result]

\* `if (mxHosts.length === 0) return { status: "unknown" }`, else the first
\* turn of the loop
afterLookup(k, hosts) ==
    LET k2 == [k EXCEPT !.mxHosts = hosts]
    IN  IF Len(hosts) = 0 THEN return(k2, Unknown(NoCode)) ELSE connect(k2, 1)

\* a loop that goes on to the next host whatever the session's outcome and
\* returns the last outcome
afterSessionLast(k) ==
    IF k.i < Len(k.mxHosts) THEN connect(k, k.i + 1) ELSE return(k, k.s.result)

\* a loop that returns the last host's unknown outcome as it is, code included
afterSessionKeepsCode(k) ==
    IF k.s.result.status # "unknown" THEN return(k, k.s.result)
    ELSE IF k.i < Len(k.mxHosts) THEN connect(k, k.i + 1)
    ELSE return(k, k.s.result)

\* `if (result.status !== "unknown") return result;`, the next turn of the
\* loop, and the `return { status: "unknown" }` after it
afterSession(k) ==
    IF k.s.result.status # "unknown" THEN return(k, k.s.result)
    ELSE IF k.i < Len(k.mxHosts) THEN connect(k, k.i + 1)
    ELSE return(k, Unknown(NoCode))

\* `await connectAndProbe(...)`: the call resumes once the promise is resolved
settled(s) == s.resolved

\* the connections of the last WindowMs ticks
Recent(log, t) == SelectSeq(log, LAMBDA ts : ts >= t - WindowMs)

\* a call enters probeSmtp
ProbeStart(c) ==
    \E domain \in ProbeDomains :
        LET r == allow(limiter, domain, now)
        IN  /\ calls[c].pc = "idle"
            /\ limiter' = r.lim
            /\ calls' = [calls EXCEPT ![c] = IF r.ret THEN lookup(@, domain)
                                              ELSE denied(@, domain)]
            /\ UNCHANGED <<now, netlog, lastAllow, admitted>>

\* checkDNS resolves with the MX hosts of the domain
ProbeLookupDone(c) ==
    \E hosts \in HostLists :
        LET k == afterLookup(calls[c], hosts)
        IN  /\ calls[c].pc = "dns"
            /\ calls' = [calls EXCEPT ![c] = k]
            /\ netlog' = IF k.opened > calls[c].opened
                         THEN [netlog EXCEPT ![k.domain] = Append(@, now)]
                         ELSE netlog
            /\ UNCHANGED <<now, limVars>>

\* an event of the open socket of the call's session: s2 is the session
\* after its handler has run
ProbeDeliver(c, s2) ==
    /\ calls[c].pc = "probing"
    /\ calls[c].s.open
    /\ calls' = [calls EXCEPT
            ![c].s = s2,
            ![c].closed = @ + (s2.destroyCount - calls[c].s.destroyCount),
            ![c].contacted[calls[c].i].outcome = IF s2.resolved THEN s2.result ELSE @]
    /\ UNCHANGED <<now, netlog, limVars>>

ProbeData(c) == \E chunk \in ProbeChunks : ProbeDeliver(c, onData(calls[c].s, chunk))

ProbeError(c) == ProbeDeliver(c, onError(calls[c].s))

ProbeEnd(c) == ProbeDeliver(c, onEnd(calls[c].s))

ProbeTimer(c) ==
    /\ calls[c].s.timer = "armed"
    /\ ProbeDeliver(c, onTimer(calls[c].s))

\* the call resumes after its await
ProbeResume(c) ==
    LET k == afterSession(calls[c])
    IN  /\ calls[c].pc = "probing"
        /\ settled(calls[c].s)
        /\ calls' = [calls EXCEPT ![c] = k]
        /\ netlog' = IF k.opened > calls[c].opened
                     THEN [netlog EXCEPT ![k.domain] = Append(@, now)]
                     ELSE netlog
        /\ UNCHANGED <<now, limVars>>

\* the caller has taken the result; the slot is free for the next call
ProbeReturn(c) ==
    /\ calls[c].pc = "done"
    /\ calls' = [calls EXCEPT ![c] = IdleCall]
    /\ UNCHANGED <<now, netlog, limVars>>

\* the clock advances; connections older than the window leave the log
ProbeTick ==
    /\ now < ProbeMaxTime
    /\ now' = now + 1
    /\ netlog' = [d \in ProbeDomains |-> Recent(netlog[d], now + 1)]
    /\ UNCHANGED <<calls, limVars>>

(***************************************************************************)
(* checkCatchAll (src/core/catchAll.ts): the MX lookup, one random address *)
(* per call, then one smtpCatchAllProbe session per MX host, one after the *)
(* other.                                                                  *)
(***************************************************************************)
\* crypto.randomBytes(16).toString("hex")
RandomParts == {"0f3a", "9c1e"}

\* generateRandomEmail(domain)
generateRandomEmail(randomPart, domain) == "catch-all-test-" \o randomPart \o "@" \o domain

\* the replies of the servers probed by checkCatchAll
DetectChunks == ProbeChunks \cup { << <<"5", "5", "2">> >> }

\* the CatchAllResult values checkCatchAll returns
NoMxRecords ==
    [isCatchAll |-> FALSE, confidence |-> "low", method |-> "unknown",
     details |-> "No MX records found"]

AcceptedBy(host) ==
    [isCatchAll |-> TRUE, confidence |-> "high", method |-> "smtp_probe",
     details |-> "Random address accepted by " \o host]

RejectedWith(code) ==
    [isCatchAll |-> FALSE, confidence |-> "high", method |-> "smtp_probe",
     details |-> "Random address rejected with code " \o code]

CouldNotConnect ==
    [isCatchAll |-> FALSE, confidence |-> "low", method |-> "unknown",
     details |-> "Could not connect to any MX host"]

\* the promise of checkCatchAll before it is resolved
PendingDetect ==
    [isCatchAll |-> FALSE, confidence |-> "low", method |-> "unknown", details |-> "pending"]

\* a checkCatchAll call slot no call is using
IdleDetect ==
    [ pc        |-> "idle",
      domain    |-> "",
      testEmail |-> "",
      generated |-> 0,
      queries   |-> {},
      mxHosts   |-> <<>>,
      i         |-> 0,
      s         |-> NewSession("catchall", FALSE),
      result    |-> PendingDetect,
      contacted |-> <<>>,
      opened    |-> 0,
      closed    |-> 0 ]

\* the toggles checkCatchAll passes to checkDNS
DetectDnsOpts == [mx |-> TRUE, spf |-> FALSE, dmarc |-> FALSE]

\* `await checkDNS(domain, { mx: true, spf: false, dmarc: false, timeoutMs }, cache)`
detectLookup(k, domain) ==
    [k EXCEPT !.pc = "dns", !.domain = domain, !.queries = checkDNSQueries(DetectDnsOpts)]

\* `smtpCatchAllProbe(host, testEmail, timeoutMs)` for the i-th MX host
detectConnect(k, i) ==
    [k EXCEPT !.pc = "probing", !.i = i,
              !.s = NewSessionFor("catchall", FALSE, k.testEmail),
              !.opened = @ + 1,
              !.contacted = Append(@, [host |-> k.mxHosts[i], email |-> k.testEmail,
                                       outcome |-> Pending("catchall")])]

\* `if (mxHosts.length === 0) return {...}`, else `const testEmail =
\* generateRandomEmail(domain)` and the first turn of the loop
detectAfterLookup(k, hosts, randomPart) ==
    LET k2 == [k EXCEPT !.mxHosts = hosts]
    IN  IF Len(hosts) = 0 THEN return(k2, NoMxRecords)
        ELSE detectConnect([k2 EXCEPT !.testEmail = generateRandomEmail(randomPart, k.domain),
                                      !.generated = @ + 1], 1)

\* a loop that takes a host it could not talk to for a host that rejects
detectAfterSessionHasty(k) ==
    IF k.s.result.accepts THEN return(k, AcceptedBy(k.mxHosts[k.i]))
    ELSE return(k, RejectedWith(k.s.result.code))

\* `if (result.error) continue;`, the two returns of the loop, the next turn
\* of the loop, and the return after it
detectAfterSession(k) ==
    IF k.s.result.error # ""
    THEN IF k.i < Len(k.mxHosts) THEN detectConnect(k, k.i + 1)
         ELSE return(k, CouldNotConnect)
    ELSE IF k.s.result.accepts THEN return(k, AcceptedBy(k.mxHosts[k.i]))
    ELSE return(k, RejectedWith(k.s.result.code))

\* a call enters checkCatchAll
DetectStart(c) ==
    \E domain \in ProbeDomains :
        /\ calls[c].pc = "idle"
        /\ calls' = [calls EXCEPT ![c] = detectLookup(@, domain)]
        /\ UNCHANGED <<now, netlog, limVars>>

\* checkDNS resolves with the MX hosts of the domain
DetectLookupDone(c) ==
    \E hosts \in HostLists, randomPart \in RandomParts :
        /\ calls[c].pc = "dns"
        /\ calls' = [calls EXCEPT ![c] = detectAfterLookup(@, hosts, randomPart)]
        /\ UNCHANGED <<now, netlog, limVars>>

DetectData(c) == \E chunk \in DetectChunks : ProbeDeliver(c, onData(calls[c].s, chunk))

\* the call resumes after `await smtpCatchAllProbe(...)`
DetectResume(c) ==
    /\ calls[c].pc = "probing"
    /\ settled(calls[c].s)
    /\ calls' = [calls EXCEPT ![c] = detectAfterSession(@)]
    /\ UNCHANGED <<now, netlog, limVars>>

\* the caller has taken the result; the slot is free for the next call
DetectReturn(c) ==
    /\ calls[c].pc = "done"
    /\ calls' = [calls EXCEPT ![c] = IdleDetect]
    /\ UNCHANGED <<now, netlog, limVars>>

(***************************************************************************)
(* checkDNS (src/core/dns.ts): up to five lookups issued together, each    *)
(* through resolveCached and a timeout race, joined by Promise.all.        *)
(***************************************************************************)
\* the lookups of one checkDNS call, in the order they are issued
Lookups == <<"mx", "spfTxt", "dmarcTxt", "a", "aaaa">>

LookupSet == {Lookups[i] : i \in 1..Len(Lookups)}

\* the domain looked up
DnsDomain == "a.com"

\* `${kind}:${name}`
makeCacheKey(kind, name) == kind \o ":" \o name

\* the cache key of a lookup: resolveMx, resolveTxt(domain),
\* resolveTxt(`_dmarc.${domain}`), resolveA, resolveAAAA
keyOf(lk, domain) ==
    CASE lk = "mx"       -> makeCacheKey("MX", domain)
      [] lk = "spfTxt"   -> makeCacheKey("TXT", domain)
      [] lk = "dmarcTxt" -> makeCacheKey("TXT", "_dmarc." \o domain)
      [] lk = "a"        -> makeCacheKey("A", domain)
      [] lk = "aaaa"     -> makeCacheKey("AAAA", domain)

DnsKeys == {keyOf(lk, DnsDomain) : lk \in LookupSet}

\* the envelopes resolveCached returns and caches
ResolveOk(records) == [ok |-> TRUE, records |-> records]
ResolveErr(error)  == [ok |-> FALSE, error |-> error]

\* String.prototype.toLowerCase, on the capitals used here
toLowerCase(text) ==
    [i \in 1..Len(text) |->
        CASE text[i] = "V" -> "v"
          [] text[i] = "S" -> "s"
          [] text[i] = "P" -> "p"
          [] text[i] = "F" -> "f"
          [] text[i] = "D" -> "d"
          [] text[i] = "M" -> "m"
          [] text[i] = "A" -> "a"
          [] text[i] = "R" -> "r"
          [] text[i] = "C" -> "c"
          [] text[i] = "O" -> "o"
          [] OTHER -> text[i]]

\* chunks.join("")
RECURSIVE join(_)
join(chunks) == IF chunks = <<>> THEN <<>> ELSE Head(chunks) \o join(Tail(chunks))

\* records.map((chunks) => chunks.join("")).filter(Boolean)
flattenTxt(records) ==
    SelectSeq([i \in 1..Len(records) |-> join(records[i])], LAMBDA r : r # <<>>)

\* records.some((record) => record.toLowerCase().startsWith("v=spf1"))
hasSpfRecord(records) ==
    \E i \in 1..Len(records) :
        startsWith(toLowerCase(records[i]), <<"v", "=", "s", "p", "f", "1">>)

\* records.some((record) => record.toLowerCase().startsWith("v=dmarc1"))
hasDmarcRecord(records) ==
    \E i \in 1..Len(records) :
        startsWith(toLowerCase(records[i]), <<"v", "=", "d", "m", "a", "r", "c", "1">>)

\* input.mx || input.txtAtRoot || input.hasA || input.hasAAAA
computeDomainExists(input) == input.mx \/ input.txtAtRoot \/ input.hasA \/ input.hasAAAA

\* the TXT record sets a server answers with: each record a list of chunks.
\* An SPF policy split in two chunks, a DMARC policy in capitals, a record
\* of one empty string
SpfTxt   == << << <<"v", "=", "s">>, <<"p", "f", "1", " ", "-">> >> >>
DmarcTxt == << << <<"x">> >>, << <<"v", "=", "D", "M", "A", "R", "C", "1", ";">> >> >>
EmptyTxt == << << <<>> >> >>

TxtAnswers == {SpfTxt, DmarcTxt, EmptyTxt}

\* the MX record sets: { exchange, priority } per host, possibly none
MxAnswers == { [i \in 1..Len(hs) |-> [exchange |-> hs[i], priority |-> 10 * i]] : hs \in HostLists }

\* the address record sets of resolve4 / resolve6
AddrAnswers == { <<"1.2.3.4">> }

\* what the resolver can answer a lookup with
Answers(lk) ==
    CASE lk = "mx" -> MxAnswers
      [] lk \in {"spfTxt", "dmarcTxt"} -> TxtAnswers
      [] OTHER -> AddrAnswers

\* the ways the query of a lookup ends: records, a resolver error, or the
\* timer of withTimeout winning the race
Outcomes(lk) ==
    { [how |-> "records", records |-> r] : r \in Answers(lk) }
        \cup { [how |-> "error", records |-> <<>>], [how |-> "timeout", records |-> <<>>] }

\* a promise: pending, fulfilled with a value, or rejected with an error
PendingP      == [state |-> "pending"]
Fulfilled(v)  == [state |-> "fulfilled", value |-> v]
Rejected(err) == [state |-> "rejected", error |-> err]
NotIssued     == [state |-> "null"]

\* withTimeout(promise, timeoutMs): Promise.race of the query and the timer
withTimeout(o) ==
    CASE o.how = "records" -> Fulfilled(o.records)
      [] o.how = "error"   -> Rejected("ENOTFOUND")
      [] o.how = "timeout" -> Rejected("DNS timeout")

\* a resolveCached whose catch is missing: a failed query rejects the lookup
resolveCachedThrows(o) ==
    LET q == withTimeout(o)
    IN  IF q.state = "fulfilled" THEN Fulfilled(ResolveOk(q.value)) ELSE q

\* resolveCached after `await queryFn()`: the try / catch that turns the
\* query's end into an envelope; the envelope is cached and returned
resolveCached(o) ==
    LET q == withTimeout(o)
    IN  IF q.state = "fulfilled" THEN Fulfilled(ResolveOk(q.value))
        ELSE Fulfilled(ResolveErr(q.error))

\* the toggles of a call, resolved: `opts.mx !== false`, ...
DnsToggles == [mx : BOOLEAN, spf : BOOLEAN, dmarc : BOOLEAN]

\* whether checkDNS issues the lookup: MX, root TXT and _dmarc TXT when
\* their toggle is on, A and AAAA always
issued(opts, lk) ==
    CASE lk = "mx"       -> opts.mx
      [] lk = "spfTxt"   -> opts.spf
      [] lk = "dmarcTxt" -> opts.dmarc
      [] OTHER           -> TRUE

\* an optional field that is not set
Undef == "undefined"

Tri(b) == IF b THEN "true" ELSE "false"

\* `const result: DnsResult = { domain, domainExists: false }`
NewDnsResult(domain) ==
    [domain |-> domain, domainExists |-> FALSE, mx |-> Undef, spf |-> Undef, dmarc |-> Undef,
     hasMxHosts |-> FALSE, mxHosts |-> <<>>]

\* a checkDNS call slot no call is using
IdleDnsCall ==
    [ pc     |-> "idle",
      opts   |-> [mx |-> TRUE, spf |-> TRUE, dmarc |-> TRUE],
      p      |-> [lk \in LookupSet |-> NotIssued],
      how    |-> [lk \in LookupSet |-> "none"],
      result |-> NewDnsResult("") ]

\* the value `await` gives for a promise of the Promise.all: null for a
\* lookup that was not issued
Null == [isNull |-> TRUE]

awaited(p) == IF p.state = "null" THEN Null ELSE p.value

\* `res && res.ok`
okRes(res) == "isNull" \notin DOMAIN res /\ res.ok

\* the history of a key no completed lookup is cached for
NoLookup == [live |-> FALSE, env |-> Null, expiresAt |-> 0]

\* the envelope a lookup that ended with outcome o has completed with
envelopeOf(o) ==
    IF o.how = "records" THEN ResolveOk(o.records)
    ELSE ResolveErr(IF o.how = "error" THEN "ENOTFOUND" ELSE "DNS timeout")

\* the history after the store st became st2: the completed lookup of a key
\* is forgotten when its entry leaves the store (expired or evicted)
remembered(hist, st, st2) ==
    [k \in DnsKeys |-> IF has(st, k) /\ ~has(st2, k) THEN NoLookup ELSE hist[k]]

\* the history after a lookup of key has completed with outcome o at time t
lookedUp(hist, key, o, t) ==
    IF key \in DnsKeys
    THEN [hist EXCEPT ![key] = [live |-> TRUE, env |-> envelopeOf(o), expiresAt |-> t + TtlMs]]
    ELSE hist

\* resolveCached up to its first await, for the lookups from the i-th on:
\* `const hit = cache?.get(key); if (hit) return hit.data;`, else the query
\* is sent.  acc is the call, the store and the query count so far
RECURSIVE issueFrom(_, _, _)
issueFrom(i, acc, t) ==
    IF i > Len(Lookups) THEN acc
    ELSE LET lk  == Lookups[i]
             key == keyOf(lk, DnsDomain)
             r   == get(acc.store, key, t)
         IN  IF ~issued(acc.k.opts, lk) THEN issueFrom(i + 1, acc, t)
             ELSE IF r.ret.hit
             THEN issueFrom(i + 1,
                      [acc EXCEPT !.store = r.store,
                                  !.k.p[lk] = Fulfilled(r.ret.data),
                                  !.k.how[lk] = "cache"], t)
             ELSE issueFrom(i + 1,
                      [acc EXCEPT !.store = r.store,
                                  !.k.p[lk] = PendingP,
                                  !.k.how[lk] = "query",
                                  !.queries[key] = @ + 1], t)

\* checkDNS from `if (checkMx)` to `return result`: the DnsResult built from
\* the five awaited values
dnsResultOf(k) ==
    LET mxRes       == awaited(k.p["mx"])
        spfTxtRes   == awaited(k.p["spfTxt"])
        dmarcTxtRes == awaited(k.p["dmarcTxt"])
        aRes        == awaited(k.p["a"])
        aaaaRes     == awaited(k.p["aaaa"])
        checkMx     == k.opts.mx
        checkSpf    == k.opts.spf
        checkDmarc  == k.opts.dmarc
        mxFound     == checkMx /\ okRes(mxRes) /\ Len(mxRes.records) > 0
        rootTxtRecords == IF checkSpf /\ okRes(spfTxtRes) THEN flattenTxt(spfTxtRes.records) ELSE <<>>
        hasA        == aRes.ok /\ Len(aRes.records) > 0
        hasAAAA     == aaaaRes.ok /\ Len(aaaaRes.records) > 0
    IN  [ domain     |-> DnsDomain,
          mx         |-> IF checkMx THEN Tri(mxFound) ELSE Undef,
          hasMxHosts |-> mxFound,
          mxHosts    |-> IF mxFound
                         THEN [i \in 1..Len(mxRes.records) |-> mxRes.records[i].exchange]
                         ELSE <<>>,
          spf        |-> IF ~checkSpf THEN Undef
                         ELSE IF okRes(spfTxtRes) THEN Tri(hasSpfRecord(rootTxtRecords))
                         ELSE "false",
          dmarc      |-> IF ~checkDmarc THEN Undef
                         ELSE IF okRes(dmarcTxtRes)
                         THEN Tri(hasDmarcRecord(flattenTxt(dmarcTxtRes.records)))
                         ELSE "false",
          domainExists |-> computeDomainExists(
                              [mx |-> mxFound,
                               txtAtRoot |-> Len(rootTxtRecords) > 0,
                               hasA |-> hasA, hasAAAA |-> hasAAAA]) ]

\* a join that gives up on every signal when one lookup has failed
checkDNSJoinPoisoned(k) ==
    IF \E lk \in LookupSet : k.p[lk].state = "rejected" THEN [k EXCEPT !.pc = "rejected"]
    ELSE IF \E lk \in LookupSet : k.p[lk].state = "fulfilled" /\ ~k.p[lk].value.ok
    THEN [k EXCEPT !.pc = "done",
                   !.result = [NewDnsResult(DnsDomain) EXCEPT
                                  !.mx = IF k.opts.mx THEN "false" ELSE Undef,
                                  !.spf = IF k.opts.spf THEN "false" ELSE Undef,
                                  !.dmarc = IF k.opts.dmarc THEN "false" ELSE Undef]]
    ELSE [k EXCEPT !.pc = "done", !.result = dnsResultOf(k)]

\* checkDNS after `await Promise.all([...])`: it rejects when a lookup has
\* rejected, and returns the DnsResult otherwise
checkDNSJoin(k) ==
    IF \E lk \in LookupSet : k.p[lk].state = "rejected" THEN [k EXCEPT !.pc = "rejected"]
    ELSE [k EXCEPT !.pc = "done", !.result = dnsResultOf(k)]

\* a call enters checkDNS: the lookups are issued, those the cache answers
\* are settled at once
DnsStart(c, opts) ==
    LET acc == issueFrom(1, [k |-> [IdleDnsCall EXCEPT !.pc = "waiting", !.opts = opts],
                             store |-> store, queries |-> queries], now)
    IN  /\ dns[c].pc = "idle"
        /\ dns' = [dns EXCEPT ![c] = acc.k]
        /\ store' = acc.store
        /\ queries' = acc.queries
        /\ completed' = remembered(completed, store, acc.store)
        /\ UNCHANGED now

\* the query of one lookup ends with outcome o: resolveCached caches the
\* envelope and settles the lookup's promise
DnsSettle(c, lk, o) ==
    LET pr  == resolveCached(o)
        key == keyOf(lk, DnsDomain)
        st2 == IF pr.state = "fulfilled" THEN set(store, key, pr.value, [given |-> FALSE, ms |-> 0], now)
               ELSE store
    IN  /\ dns[c].pc = "waiting"
        /\ dns[c].p[lk].state = "pending"
        /\ dns' = [dns EXCEPT ![c].p[lk] = pr, ![c].how[lk] = o.how]
        /\ queries' = [queries EXCEPT ![key] = @ - 1]
        /\ store' = st2
        /\ completed' = lookedUp(remembered(completed, store, st2), key, o, now)
        /\ UNCHANGED now

\* Promise.all settles and checkDNS resumes
DnsJoin(c) ==
    /\ dns[c].pc = "waiting"
    /\ \/ \A lk \in LookupSet : dns[c].p[lk].state # "pending"
       \/ \E lk \in LookupSet : dns[c].p[lk].state = "rejected"
    /\ dns' = [dns EXCEPT ![c] = checkDNSJoin(@)]
    /\ UNCHANGED <<now, store, queries, completed>>

\* the caller has taken the DnsResult; the slot is free for the next call
DnsReturn(c) ==
    /\ dns[c].pc = "done"
    /\ dns' = [dns EXCEPT ![c] = IdleDnsCall]
    /\ UNCHANGED <<now, store, queries, completed>>

\* the key of a lookup for another domain
OtherKey == makeCacheKey("MX", "b.com")

\* a lookup that another validation had sent, for this domain's MX or for
\* another domain, ends with outcome o: resolveCached caches its envelope
DnsOther(key, o) ==
    LET pr  == resolveCached(o)
        st2 == IF pr.state = "fulfilled" THEN set(store, key, pr.value, [given |-> FALSE, ms |-> 0], now)
               ELSE store
    IN  /\ store' = st2
        /\ completed' = lookedUp(remembered(completed, store, st2), key, o, now)
        /\ UNCHANGED <<now, dns, queries>>

\* the longest run of the clock of the checkDNS specifications
DnsMaxTime == 3

\* the clock advances
DnsTick ==
    /\ now < DnsMaxTime
    /\ now' = now + 1
    /\ UNCHANGED <<store, dns, queries, completed>>

(***************************************************************************)
(* normalizeEmail (src/core/normalize.ts) and validateSyntax               *)
(* (src/core/syntax.ts): the syntax gate of a validation.  An email is a   *)
(* sequence of one-character strings.                                      *)
(***************************************************************************)
\* the characters \s matches, of those used here
Whitespace == {" "}

Letters == {"a", "c", "m", "o", "A", "C", "M", "O"}

\* the characters localRe allows besides letters and digits, but for the two
\* quote marks
LocalSpecials == {"!", "#", "$", "%", "&", "*", "+", "/", "=", "?", "^", "_", "{", "|", "}",
                  "~", ".", "-"}

least(S) == CHOOSE i \in S : \A j \in S : i <= j

greatest(S) == CHOOSE i \in S : \A j \in S : i >= j

\* String.prototype.trim
trim(text) ==
    LET kept == {i \in 1..Len(text) : text[i] \notin Whitespace}
    IN  IF kept = {} THEN <<>> ELSE SubSeq(text, least(kept), greatest(kept))

\* String.prototype.split(sep), sep one character
RECURSIVE split(_, _)
split(text, sep) ==
    LET at == {i \in 1..Len(text) : text[i] = sep}
    IN  IF at = {} THEN <<text>>
        ELSE <<SubSeq(text, 1, least(at) - 1)>>
                 \o split(SubSeq(text, least(at) + 1, Len(text)), sep)

\* the string of a sequence of characters
RECURSIVE strOf(_)
strOf(text) == IF text = <<>> THEN "" ELSE Head(text) \o strOf(Tail(text))

\* url.domainToASCII: the empty string for a domain with a forbidden code point
domainToASCII(domain) ==
    IF \E i \in 1..Len(domain) : domain[i] \in Whitespace THEN <<>> ELSE domain

NormalizeFailed(reason) ==
    [ok |-> FALSE, reason |-> reason, localPart |-> <<>>, domain |-> <<>>, normalizedEmail |-> <<>>]

\* normalizeEmail(email)
normalizeEmail(email) ==
    LET trimmed == trim(email)
        parts   == split(trimmed, "@")
    IN  IF Len(parts) # 2 THEN NormalizeFailed("Email must contain a single @ symbol")
        ELSE IF parts[1] = <<>> THEN NormalizeFailed("Email local part is missing")
        ELSE IF parts[2] = <<>> THEN NormalizeFailed("Email domain is missing")
        ELSE LET domain == toLowerCase(parts[2])
             IN  IF domainToASCII(domain) = <<>> THEN NormalizeFailed("Email domain is invalid")
                 ELSE [ok |-> TRUE, reason |-> "", localPart |-> parts[1], domain |-> domain,
                       normalizedEmail |-> parts[1] \o <<"@">> \o domain]

\* BASIC_RE.test(email): /^[^\s@]+@[^\s@]+\.[^\s@]+$/
BASIC_RE(email) ==
    \E at \in 1..Len(email), dot \in 1..Len(email) :
        /\ email[at] = "@"
        /\ email[dot] = "."
        /\ 1 < at /\ at + 1 < dot /\ dot < Len(email)
        /\ \A i \in 1..Len(email) : i # at => email[i] \notin Whitespace \cup {"@"}

\* localRe.test(local): one or more of the allowed characters
localRe(local) ==
    /\ Len(local) > 0
    /\ \A i \in 1..Len(local) : local[i] \in Letters \cup Digits \cup LocalSpecials

\* domainRe.test(domain): /^(?:[A-Za-z0-9-]+\.)+[A-Za-z]{2,}$/
domainRe(domain) ==
    LET labels == split(domain, ".")
        n      == Len(labels)
    IN  /\ n >= 2
        /\ \A l \in 1..(n - 1) :
              /\ Len(labels[l]) > 0
              /\ \A i \in 1..Len(labels[l]) : labels[l][i] \in Letters \cup Digits \cup {"-"}
        /\ Len(labels[n]) >= 2
        /\ \A i \in 1..Len(labels[n]) : labels[n][i] \in Letters

SyntaxOk == [ok |-> TRUE, reason |-> ""]

SyntaxFailed(reason) == [ok |-> FALSE, reason |-> reason]

\* local.includes("..")
hasDoubleDot(local) == \E i \in 1..(Len(local) - 1) : local[i] = "." /\ local[i + 1] = "."

\* validateSyntax(email, mode)
validateSyntax(email, mode) ==
    IF mode = "basic"
    THEN IF BASIC_RE(email) THEN SyntaxOk ELSE SyntaxFailed("Email does not match basic syntax")
    ELSE LET parts == split(email, "@")
         IN  IF Len(email) > 254 THEN SyntaxFailed("Email length exceeds 254 characters")
             ELSE IF Len(parts) # 2 THEN SyntaxFailed("Email must contain a single @ symbol")
             ELSE IF parts[1] = <<>> \/ parts[2] = <<>>
             THEN SyntaxFailed("Email local or domain part missing")
             ELSE IF Len(parts[1]) > 64 THEN SyntaxFailed("Local part exceeds 64 characters")
             ELSE IF Head(parts[1]) = "." \/ parts[1][Len(parts[1])] = "." \/ hasDoubleDot(parts[1])
             THEN SyntaxFailed("Local part has invalid dot placement")
             ELSE IF ~localRe(parts[1]) THEN SyntaxFailed("Local part contains invalid characters")
             ELSE IF ~domainRe(parts[2]) THEN SyntaxFailed("Domain part is invalid")
             ELSE SyntaxOk

(***************************************************************************)
(* Scoring (src/core/scoring.ts).  Scores and weights are counted in       *)
(* halves of a point, so that Math.round has something to round.           *)
(***************************************************************************)
\* the halves of n points
pts(n) == 2 * n

DEFAULT_WEIGHTS ==
    [ typo           |-> pts(25),
      disposable     |-> pts(60),
      noMx           |-> pts(50),
      noSpf          |-> pts(10),
      noDmarc        |-> pts(10),
      smtpInvalid    |-> pts(80),
      smtpUnknown    |-> pts(5),
      catchAll       |-> pts(10),
      roleEmail      |-> pts(5),
      patternHigh    |-> pts(20),
      patternMedium  |-> pts(10),
      patternLow     |-> pts(5),
      plusAddressing |-> pts(3) ]

\* in points
DEFAULT_THRESHOLDS == [valid |-> 85, risky |-> 60, unknown |-> 30]

Verdicts == {"valid", "risky", "unknown", "invalid"}

\* a computeVerdict that tries the unknown threshold before the risky one
computeVerdictUnknownFirst(score, thresholds) ==
    LET t == IF thresholds = Null THEN DEFAULT_THRESHOLDS ELSE thresholds
    IN  IF score >= t.valid THEN "valid"
        ELSE IF score >= t.unknown THEN "unknown"
        ELSE IF score >= t.risky THEN "risky"
        ELSE "invalid"

\* a computeVerdict whose comparisons are strict
computeVerdictStrict(score, thresholds) ==
    LET t == IF thresholds = Null THEN DEFAULT_THRESHOLDS ELSE thresholds
    IN  IF score > t.valid THEN "valid"
        ELSE IF score > t.risky THEN "risky"
        ELSE IF score > t.unknown THEN "unknown"
        ELSE "invalid"

\* computeVerdict(score, thresholds), score in points; thresholds is Null
\* when the argument is left out
computeVerdict(score, thresholds) ==
    LET t == IF thresholds = Null THEN DEFAULT_THRESHOLDS ELSE thresholds
    IN  IF score >= t.valid THEN "valid"
        ELSE IF score >= t.risky THEN "risky"
        ELSE IF score >= t.unknown THEN "unknown"
        ELSE "invalid"

\* Math.round of a number of halves, in points: halves round up
round(halves) == (halves + 1) \div 2

\* Math.max and Math.min
max(a, b) == IF a >= b THEN a ELSE b

min(a, b) == IF a <= b THEN a ELSE b

\* a clampScore without the upper limit
clampScoreNoCeiling(score) == max(0, round(score))

\* a clampScore that only rounds
clampScoreUnclamped(score) == round(score)

\* clampScore(score): Math.max(0, Math.min(100, Math.round(score))), in points
clampScore(score) == max(0, min(100, round(score)))

(***************************************************************************)
(* runValidation (src/verify.ts): the options, the locals of one call and  *)
(* its stages.  VerifyOptions is a function from the paths that are set to *)
(* their values.                                                           *)
(***************************************************************************)
\* `options.path ?? fallback`
opt(options, path, fallback) == IF path \in DOMAIN options THEN options[path] ELSE fallback

\* resolveOptions(options)
resolveOptions(options) ==
    [ mode              |-> opt(options, "mode", "basic"),
      typoSuggestions   |-> opt(options, "typoSuggestions", TRUE),
      disposableEnabled |-> opt(options, "disposable.enabled", TRUE),
      patternsEnabled   |-> opt(options, "patterns.enabled", TRUE),
      roleEmailEnabled  |-> opt(options, "roleEmail.enabled", TRUE),
      catchAllEnabled   |-> opt(options, "catchAll.enabled", FALSE),
      dnsOpts           |-> [ mx    |-> opt(options, "dns.mx", TRUE),
                              spf   |-> opt(options, "dns.spf", TRUE),
                              dmarc |-> opt(options, "dns.dmarc", TRUE) ],
      smtpOpts          |-> [ enabled |-> opt(options, "smtp.enabled", FALSE),
                              maxConnectionsPerDomainPerMinute |->
                                  opt(options, "smtp.maxConnectionsPerDomainPerMinute", 10) ] ]

\* `{ ...DEFAULT_WEIGHTS, ...options.scoring?.weights }`
weightsOf(options) ==
    LET given == opt(options, "scoring.weights", <<>>)
    IN  [w \in DOMAIN DEFAULT_WEIGHTS |-> IF w \in DOMAIN given THEN given[w] ELSE DEFAULT_WEIGHTS[w]]

\* the thresholds computeVerdict is given
thresholdsOf(options) ==
    [ valid   |-> opt(options, "scoring.thresholds.valid", DEFAULT_THRESHOLDS.valid),
      risky   |-> opt(options, "scoring.thresholds.risky", DEFAULT_THRESHOLDS.risky),
      unknown |-> opt(options, "scoring.thresholds.unknown", DEFAULT_THRESHOLDS.unknown) ]

\* the entry points and the run flags they pass
Entries == {"verifyEmail", "debugVerifyEmail"}

runOptionsOf(entry, options) ==
    IF entry = "debugVerifyEmail" THEN [collectTrace |-> TRUE, includeDetails |-> TRUE]
    ELSE [collectTrace |-> FALSE, includeDetails |-> opt(options, "output", "basic") = "full"]

\* an object with no property
EmptyObject == [isEmpty |-> TRUE]

\* createInitialChecks(mode, smtpEnabled)
createInitialChecks(mode, smtpEnabled) ==
    [ syntax     |-> [ok |-> TRUE, mode |-> mode, reason |-> ""],
      typo       |-> [ok |-> TRUE, suggestedEmail |-> ""],
      disposable |-> [ok |-> FALSE, source |-> ""],
      dns        |-> EmptyObject,
      smtp       |-> [enabled |-> smtpEnabled, status |-> "unknown", code |-> NoCode],
      roleEmail  |-> [isRole |-> FALSE],
      patterns   |-> [detected |-> FALSE, signals |-> <<>>],
      catchAll   |-> Null ]

\* buildInvalidResult(email, normalizedEmail, reason, mode, smtpEnabled)
buildInvalidResult(email, normalizedEmail, reason, mode, smtpEnabled) ==
    [ email           |-> email,
      normalizedEmail |-> normalizedEmail,
      verdict         |-> "invalid",
      confidence      |-> 0,
      reasons         |-> <<reason>>,
      intelligence    |-> [isRoleEmail |-> FALSE],
      risks           |-> <<>>,
      scoreBreakdown  |-> <<[check |-> "syntax", passed |-> FALSE, impact |-> -pts(100)]>>,
      checks          |-> [ syntax     |-> [ok |-> FALSE, mode |-> mode, reason |-> reason],
                            typo       |-> [ok |-> FALSE, suggestedEmail |-> ""],
                            disposable |-> [ok |-> FALSE, source |-> ""],
                            dns        |-> EmptyObject,
                            smtp       |-> [enabled |-> smtpEnabled, status |-> "unknown",
                                            code |-> NoCode],
                            roleEmail  |-> [isRole |-> FALSE],
                            patterns   |-> [detected |-> FALSE, signals |-> <<>>],
                            catchAll   |-> Null ] ]

\* the properties of a PMEmailDetailedResult a PMEmailResult has not
DetailFields == {"intelligence", "risks", "scoreBreakdown"}

\* a toOutputResult that hands the detailed result on under either output
toOutputResultFull(detailed, output) == detailed

\* toOutputResult(detailed, output)
toOutputResult(detailed, output) ==
    IF output = "full" THEN detailed
    ELSE [f \in DOMAIN detailed \ DetailFields |-> detailed[f]]

\* no result yet
NoResult ==
    [ email |-> <<>>, normalizedEmail |-> <<>>, verdict |-> "none", confidence |-> 0,
      reasons |-> <<>>, risks |-> <<>>, scoreBreakdown |-> <<>>,
      checks |-> createInitialChecks("basic", FALSE) ]

\* what the collaborators find in an address: isRoleEmail, detectPatterns
\* (the severities of the patterns), getCanonicalEmail, suggestTypo,
\* checkDisposable, detectProvider
Clean ==
    [ isRole |-> FALSE, patterns |-> <<>>, plusTagRemoved |-> FALSE, suggestedEmail |-> "",
      disposable |-> FALSE, provider |-> TRUE ]

Flagged ==
    [ isRole |-> TRUE, patterns |-> <<"low", "high", "medium">>, plusTagRemoved |-> TRUE,
      suggestedEmail |-> "a@aol.com", disposable |-> TRUE, provider |-> FALSE ]

SignalSets == {Clean, Flagged}

\* history: the network and limiter use of the call
NoIo ==
    [ dnsQueries |-> {}, allowCalls |-> 0, smtpQueries |-> {}, smtpOpened |-> 0,
      catchAllQueries |-> {}, catchAllOpened |-> 0 ]

\* no validation call
IdleRunValue ==
    [ pc             |-> "idle",
      entry          |-> "verifyEmail",
      email          |-> <<>>,
      options        |-> ("mode" :> "basic"),
      runOptions     |-> [collectTrace |-> FALSE, includeDetails |-> FALSE],
      normalized     |-> NormalizeFailed(""),
      passedGate     |-> FALSE,
      weights        |-> DEFAULT_WEIGHTS,
      score          |-> 0,
      reasons        |-> <<>>,
      risks          |-> <<>>,
      scoreBreakdown |-> <<>>,
      checks         |-> createInitialChecks("basic", FALSE),
      dnsResult      |-> NewDnsResult(""),
      trace          |-> <<>>,
      applied        |-> <<>>,
      io             |-> NoIo,
      result         |-> NoResult ]

\* pushTrace(step, detail)
pushTrace(r, step, detail) ==
    IF r.runOptions.collectTrace
    THEN [r EXCEPT !.trace = Append(@, [step |-> step, detail |-> detail])]
    ELSE r

\* maybePushRisk({ signal, ... })
maybePushRisk(r, signal) ==
    IF r.runOptions.includeDetails THEN [r EXCEPT !.risks = Append(@, signal)] ELSE r

\* maybePushScoreBreakdown({ check, passed, impact })
maybePushScoreBreakdown(r, check, passed, impact) ==
    IF r.runOptions.includeDetails
    THEN [r EXCEPT !.scoreBreakdown =
                        Append(@, [check |-> check, passed |-> passed, impact |-> impact])]
    ELSE r

\* a deduction that clamps the running score at once
subtractClamped(r, w) ==
    [r EXCEPT !.score = pts(clampScore(@ - r.weights[w])), !.applied = Append(@, w)]

\* `score -= weights.w`; applied is the history of the weights subtracted
subtract(r, w) == [r EXCEPT !.score = @ - r.weights[w], !.applied = Append(@, w)]

\* the call returns a gate failure
gateFailed(r, email, normalizedEmail, reason) ==
    LET ro       == resolveOptions(r.options)
        detailed == buildInvalidResult(email, normalizedEmail, reason, ro.mode, ro.smtpOpts.enabled)
    IN  [r EXCEPT !.pc = "done",
                  !.result = IF r.runOptions.includeDetails THEN detailed
                             ELSE toOutputResult(detailed, "basic")]

\* a gate that lets every input through
gateOpen(r) ==
    LET email      == r.email
        normalized == normalizeEmail(email)
        ro         == resolveOptions(r.options)
        r1         == pushTrace(r, "normalize", IF normalized.ok THEN "normalized" ELSE "failed")
        r2         == pushTrace(r1, "syntax", "ok")
    IN  [r2 EXCEPT !.pc = "dns",
                   !.passedGate = TRUE,
                   !.normalized = normalized,
                   !.weights = weightsOf(r.options),
                   !.score = pts(100),
                   !.checks = createInitialChecks(ro.mode, ro.smtpOpts.enabled),
                   !.io.dnsQueries = checkDNSQueries(ro.dnsOpts)]

\* runValidation from `const normalized = normalizeEmail(email)` to
\* `await checkDNS(normalized.domain, dnsOpts, cache)`: the two early
\* returns of the gate, else the locals are initialised and the lookups of
\* checkDNS are issued
gate(r) ==
    LET email      == r.email
        normalized == normalizeEmail(email)
        ro         == resolveOptions(r.options)
        r1         == pushTrace(r, "normalize", IF normalized.ok THEN "normalized" ELSE "failed")
        syntax     == validateSyntax(normalized.normalizedEmail, ro.mode)
        r2         == pushTrace(r1, "syntax", IF syntax.ok THEN "ok" ELSE "failed")
    IN  IF ~normalized.ok
        THEN gateFailed(r1, email, trim(email), normalized.reason)
        ELSE IF ~syntax.ok
        THEN gateFailed(r2, email, normalized.normalizedEmail, syntax.reason)
        ELSE [r2 EXCEPT !.pc = "dns",
                        !.passedGate = TRUE,
                        !.normalized = normalized,
                        !.weights = weightsOf(r.options),
                        !.score = pts(100),
                        !.checks = createInitialChecks(ro.mode, ro.smtpOpts.enabled),
                        !.io.dnsQueries = checkDNSQueries(ro.dnsOpts)]

\* `pushTrace("dns", ...)` and `checks.dns = {...}`
stageDns(r, dnsResult) ==
    [pushTrace(r, "dns", "checked") EXCEPT
        !.dnsResult = dnsResult,
        !.checks.dns = [domainExists |-> dnsResult.domainExists, mx |-> dnsResult.mx,
                        spf |-> dnsResult.spf, dmarc |-> dnsResult.dmarc,
                        mxHosts |-> dnsResult.mxHosts]]

\* step 4: provider detection, for a detailed result only
stageProvider(r, sig) ==
    IF r.runOptions.includeDetails
    THEN pushTrace(r, "provider", IF sig.provider THEN "detected" ELSE "unknown")
    ELSE r

\* step 5: canonical email
stageCanonical(r, sig) ==
    pushTrace(r, "canonical", IF sig.plusTagRemoved THEN "normalized" ELSE "unchanged")

\* step 6: role email detection
stageRoleEmail(r, sig) ==
    IF ~resolveOptions(r.options).roleEmailEnabled THEN r
    ELSE LET r1 == pushTrace([r EXCEPT !.checks.roleEmail = [isRole |-> sig.isRole]],
                             "roleEmail", IF sig.isRole THEN "detected" ELSE "not_detected")
         IN  IF sig.isRole
             THEN LET r2 == subtract(r1, "roleEmail")
                      r3 == [r2 EXCEPT !.reasons = Append(@, "Role-based email address")]
                  IN  maybePushScoreBreakdown(maybePushRisk(r3, "role_email"),
                                              "role_email", FALSE, -r.weights.roleEmail)
             ELSE maybePushScoreBreakdown(r1, "role_email", TRUE, 0)

\* getPatternImpact(severity, weights): the weight of a severity
patternWeight(severity) ==
    CASE severity = "high"   -> "patternHigh"
      [] severity = "medium" -> "patternMedium"
      [] severity = "low"    -> "patternLow"

\* `for (const pattern of patterns) { ... }`
RECURSIVE patternLoop(_, _)
patternLoop(r, patterns) ==
    IF patterns = <<>> THEN r
    ELSE LET w  == patternWeight(Head(patterns))
             r1 == subtract(r, w)
             r2 == maybePushRisk(r1, "pattern")
         IN  patternLoop(maybePushScoreBreakdown(r2, "pattern", FALSE, -r.weights[w]),
                         Tail(patterns))

\* getHighestSeverity(patterns) === "high"
highestIsHigh(patterns) == \E i \in 1..Len(patterns) : patterns[i] = "high"

\* step 7: pattern detection
stagePatterns(r, sig) ==
    IF ~resolveOptions(r.options).patternsEnabled THEN r
    ELSE LET hasPatterns == Len(sig.patterns) > 0
             r1 == pushTrace([r EXCEPT !.checks.patterns =
                                  [detected |-> hasPatterns, signals |-> sig.patterns]],
                             "patterns", IF hasPatterns THEN "detected" ELSE "none")
             r2 == patternLoop(r1, sig.patterns)
         IN  IF ~hasPatterns THEN maybePushScoreBreakdown(r1, "patterns", TRUE, 0)
             ELSE IF highestIsHigh(sig.patterns)
             THEN [r2 EXCEPT !.reasons = Append(@, "Suspicious email pattern detected")]
             ELSE r2

\* step 8: plus addressing
stagePlus(r, sig) ==
    IF sig.plusTagRemoved
    THEN maybePushScoreBreakdown(maybePushRisk(subtract(r, "plusAddressing"), "plus_addressing"),
                                 "plus_addressing", TRUE, -r.weights.plusAddressing)
    ELSE r

\* a typo stage that runs whatever the toggle says
stageTypoAlways(r, sig) ==
    LET r1 == pushTrace([r EXCEPT !.checks.typo =
                             [ok |-> TRUE, suggestedEmail |-> sig.suggestedEmail]],
                        "typo", IF sig.suggestedEmail # "" THEN "suggested" ELSE "none")
    IN  IF sig.suggestedEmail # ""
        THEN LET r2 == subtract(r1, "typo")
                 r3 == [r2 EXCEPT !.reasons = Append(@, "Domain looks misspelled")]
             IN  maybePushScoreBreakdown(maybePushRisk(r3, "typo_domain"),
                                         "typo", FALSE, -r.weights.typo)
        ELSE maybePushScoreBreakdown(r1, "typo", TRUE, 0)

\* step 9: typo suggestions
stageTypo(r, sig) ==
    IF ~resolveOptions(r.options).typoSuggestions THEN r
    ELSE LET r1 == pushTrace([r EXCEPT !.checks.typo =
                                  [ok |-> TRUE, suggestedEmail |-> sig.suggestedEmail]],
                             "typo", IF sig.suggestedEmail # "" THEN "suggested" ELSE "none")
         IN  IF sig.suggestedEmail # ""
             THEN LET r2 == subtract(r1, "typo")
                      r3 == [r2 EXCEPT !.reasons = Append(@, "Domain looks misspelled")]
                  IN  maybePushScoreBreakdown(maybePushRisk(r3, "typo_domain"),
                                              "typo", FALSE, -r.weights.typo)
             ELSE maybePushScoreBreakdown(r1, "typo", TRUE, 0)

\* step 10: disposable check
stageDisposable(r, sig) ==
    IF ~resolveOptions(r.options).disposableEnabled THEN r
    ELSE LET r1 == pushTrace([r EXCEPT !.checks.disposable =
                                  [ok |-> sig.disposable,
                                   source |-> IF sig.disposable THEN "builtin" ELSE ""]],
                             "disposable", IF sig.disposable THEN "detected" ELSE "not_detected")
         IN  IF sig.disposable
             THEN LET r2 == subtract(r1, "disposable")
                      r3 == [r2 EXCEPT !.reasons = Append(@, "Disposable email domain detected")]
                  IN  maybePushScoreBreakdown(maybePushRisk(r3, "disposable_domain"),
                                              "disposable", FALSE, -r.weights.disposable)
             ELSE maybePushScoreBreakdown(r1, "disposable", TRUE, 0)

\* one of the three blocks of step 11: `if (dnsOpts.x && dnsResult.x === false)
\* {...} else if (dnsOpts.x) {...}`
dnsPenalty(r, enabled, found, w, reason, signal, check) ==
    IF enabled /\ found = "false"
    THEN LET r2 == subtract(r, w)
             r3 == [r2 EXCEPT !.reasons = Append(@, reason)]
         IN  maybePushScoreBreakdown(maybePushRisk(r3, signal), check, FALSE, -r.weights[w])
    ELSE IF enabled THEN maybePushScoreBreakdown(r, check, TRUE, 0)
    ELSE r

\* step 11: DNS score impact
stageDnsScore(r) ==
    LET o  == resolveOptions(r.options).dnsOpts
        d  == r.dnsResult
        r1 == dnsPenalty(r, o.mx, d.mx, "noMx", "No MX records found; email delivery likely fails",
                         "no_mx_records", "dns_mx")
        r2 == dnsPenalty(r1, o.spf, d.spf, "noSpf", "No SPF record found", "no_spf", "dns_spf")
    IN  dnsPenalty(r2, o.dmarc, d.dmarc, "noDmarc", "No DMARC record found", "no_dmarc", "dns_dmarc")

\* the steps after checkDNS with the disposable check ahead of the typo check
afterDnsSwapped(r, dnsResult, sig) ==
    stageDnsScore(
        stageTypo(
            stageDisposable(
                stagePlus(
                    stagePatterns(
                        stageRoleEmail(
                            stageCanonical(
                                stageProvider(stageDns(r, dnsResult), sig), sig), sig), sig), sig),
                sig), sig))

\* runValidation from the return of checkDNS to step 12
afterDns(r, dnsResult, sig) ==
    stageDnsScore(
        stageDisposable(
            stageTypo(
                stagePlus(
                    stagePatterns(
                        stageRoleEmail(
                            stageCanonical(
                                stageProvider(stageDns(r, dnsResult), sig), sig), sig), sig), sig),
                sig), sig))

\* a step 12 that takes a rejection for an inconclusive probe
afterSmtpLenient(r, smtpResult) ==
    LET r1 == pushTrace([r EXCEPT !.checks.smtp = [enabled |-> TRUE, status |-> smtpResult.status,
                                                   code |-> smtpResult.code]],
                        "smtp", smtpResult.status)
    IN  IF smtpResult.status # "valid"
        THEN maybePushScoreBreakdown(subtract(r1, "smtpUnknown"),
                                     "smtp", TRUE, -r.weights.smtpUnknown)
        ELSE maybePushScoreBreakdown(r1, "smtp", TRUE, 0)

\* step 12 after `await probeSmtp(...)`
afterSmtp(r, smtpResult) ==
    LET r1 == pushTrace([r EXCEPT !.checks.smtp = [enabled |-> TRUE, status |-> smtpResult.status,
                                                   code |-> smtpResult.code]],
                        "smtp", smtpResult.status)
    IN  IF smtpResult.status = "invalid"
        THEN LET r2 == subtract(r1, "smtpInvalid")
                 r3 == [r2 EXCEPT !.reasons = Append(@, "SMTP server rejected recipient")]
             IN  maybePushScoreBreakdown(maybePushRisk(r3, "smtp_invalid"),
                                         "smtp", FALSE, -r.weights.smtpInvalid)
        ELSE IF smtpResult.status = "unknown"
        THEN maybePushScoreBreakdown(subtract(r1, "smtpUnknown"),
                                     "smtp", TRUE, -r.weights.smtpUnknown)
        ELSE maybePushScoreBreakdown(r1, "smtp", TRUE, 0)

\* a step 13 that runs whenever catch-all detection is enabled
wantsCatchAllAlways(r) == resolveOptions(r.options).catchAllEnabled

\* `catchAllEnabled && dnsResult.mxHosts && dnsResult.mxHosts.length > 0`
wantsCatchAll(r) ==
    resolveOptions(r.options).catchAllEnabled /\ r.dnsResult.hasMxHosts /\ Len(r.dnsResult.mxHosts) > 0

\* step 13 after `await checkCatchAll(...)`
afterCatchAll(r, catchAllResult) ==
    LET r1 == pushTrace(r, "catchAll",
                        IF catchAllResult.isCatchAll THEN "detected" ELSE "not_detected")
        r2 == [r1 EXCEPT !.checks.catchAll =
                   [checked |-> TRUE, isCatchAll |-> catchAllResult.isCatchAll,
                    confidence |-> catchAllResult.confidence]]
    IN  IF catchAllResult.isCatchAll
        THEN maybePushScoreBreakdown(maybePushRisk(subtract(r2, "catchAll"), "catch_all"),
                                     "catch_all", TRUE, -r.weights.catchAll)
        ELSE maybePushScoreBreakdown(r2, "catch_all", TRUE, 0)

\* the final score and verdict, and the result returned
finish(r) ==
    LET confidence == clampScore(r.score)
        verdict    == computeVerdict(confidence, thresholdsOf(r.options))
        r1         == pushTrace(r, "score", verdict)
        baseResult == [ email           |-> r.email,
                        normalizedEmail |-> r.normalized.normalizedEmail,
                        verdict         |-> verdict,
                        confidence      |-> confidence,
                        reasons         |-> r.reasons,
                        checks          |-> r.checks ]
        details    == [ intelligence   |-> [isRoleEmail |-> r.checks.roleEmail.isRole],
                        risks          |-> r.risks,
                        scoreBreakdown |-> r.scoreBreakdown ]
    IN  [r1 EXCEPT !.pc = "done",
                   !.result = IF r.runOptions.includeDetails THEN baseResult @@ details
                              ELSE baseResult]

(***************************************************************************)
(* The pools of verify.ts: dnsCachePool keyed by `${ttlMs}:${maxEntries}`, *)
(* limiterPool keyed by the limit.  An instance is known by the number of  *)
(* the `new` that made it.                                                 *)
(***************************************************************************)
DigitChars == <<"0", "1", "2", "3", "4", "5", "6", "7", "8", "9">>

\* the decimal string of a natural number, as a template literal writes it
RECURSIVE toStr(_)
toStr(n) == IF n < 10 THEN DigitChars[n + 1] ELSE toStr(n \div 10) \o DigitChars[(n % 10) + 1]

\* the pools of a process that has validated nothing; made counts the
\* instances constructed, uses is the history of the calls made for the
\* pools' sake
NoPools == [dnsCachePool |-> <<>>, limiterPool |-> <<>>, made |-> 0, uses |-> <<>>]

\* a cache key that runs the two numbers together
poolKeyJoined(ttlMs, maxEntries) == toStr(ttlMs) \o toStr(maxEntries)

\* `${ttlMs}:${maxEntries}`
poolKey(ttlMs, maxEntries) == toStr(ttlMs) \o ":" \o toStr(maxEntries)

\* Map.prototype.set
mapSet(m, key, value) == [k \in DOMAIN m \cup {key} |-> IF k = key THEN value ELSE m[k]]

\* `options.cache?.dnsTtlMs ?? 10 * 60 * 1000` and
\* `options.cache?.maxEntries ?? 2000`
cacheConfigOf(options) ==
    [ ttlMs      |-> opt(options, "cache.dnsTtlMs", 10 * 60 * 1000),
      maxEntries |-> opt(options, "cache.maxEntries", 2000) ]

\* createDnsCache(options): the pools after the call
createDnsCache(p, options) ==
    LET c       == cacheConfigOf(options)
        key     == poolKey(c.ttlMs, c.maxEntries)
        created == [id |-> p.made + 1, ttlMs |-> c.ttlMs, maxEntries |-> c.maxEntries]
    IN  IF key \in DOMAIN p.dnsCachePool THEN p
        ELSE [p EXCEPT !.dnsCachePool = mapSet(@, key, created), !.made = @ + 1]

\* createDnsCache(options): the DnsCache returned
cacheOf(p, options) ==
    LET c == cacheConfigOf(options)
    IN  createDnsCache(p, options).dnsCachePool[poolKey(c.ttlMs, c.maxEntries)]

\* getLimiter(limit): the pools after the call
pooledLimiter(p, limit) ==
    LET created == [id |-> p.made + 1, limit |-> limit, windowMs |-> 60 * 1000]
    IN  IF limit \in DOMAIN p.limiterPool THEN p
        ELSE [p EXCEPT !.limiterPool = mapSet(@, limit, created), !.made = @ + 1]

\* getLimiter(limit): the RateLimiter returned
limiterOf(p, limit) == pooledLimiter(p, limit).limiterPool[limit]

(***************************************************************************)
(* One validation call after the other.  The call's probeSmtp and          *)
(* checkCatchAll run in the call slot SeqCall; the MX hosts they look up   *)
(* are their own checkDNS's answer.                                        *)
(***************************************************************************)
\* the ways a lookup of the validation's checkDNS ends: the records that
\* carry the signal (the validated domain has one MX host), a resolver
\* error, and for MX a timeout
VerifyOutcomes(lk) ==
    { o \in Outcomes(lk) :
        /\ o.how = "records" =>
              o.records = (CASE lk = "mx"       -> CHOOSE r \in MxAnswers : Len(r) = 1
                             [] lk = "spfTxt"   -> SpfTxt
                             [] lk = "dmarcTxt" -> DmarcTxt
                             [] OTHER           -> CHOOSE r \in AddrAnswers : TRUE)
        /\ o.how = "timeout" => lk = "mx" }

\* a checkDNS call whose lookups have all ended, lookup lk with outs[lk]
settledCall(opts, outs) ==
    [IdleDnsCall EXCEPT
        !.pc   = "waiting",
        !.opts = opts,
        !.p    = [lk \in LookupSet |-> IF issued(opts, lk) THEN resolveCached(outs[lk])
                                       ELSE NotIssued],
        !.how  = [lk \in LookupSet |-> IF issued(opts, lk) THEN outs[lk].how ELSE "none"]]

\* the validation call enters runValidation
RunStart(entry, email, options) ==
    /\ run.pc = "idle"
    /\ run' = gate([IdleRunValue EXCEPT !.entry = entry, !.email = email, !.options = options,
                                        !.runOptions = runOptionsOf(entry, options)])
    /\ pools' = createDnsCache(pools, options)
    /\ UNCHANGED <<now, limVars, probeVars>>

\* step 13, or the end of the call when the catch-all stage does not run:
\* the call after step 12 is r
catchAllOrFinish(r) ==
    IF wantsCatchAll(r)
    THEN /\ run' = [r EXCEPT !.pc = "catchAll"]
         /\ calls' = [calls EXCEPT ![SeqCall] = detectLookup(IdleDetect, strOf(r.normalized.domain))]
    ELSE /\ run' = finish(r)
         /\ calls' = [calls EXCEPT ![SeqCall] = IdleCall]

\* checkDNS returns (or rejects) and the call runs to its next await
RunDnsDone ==
    \E mxO \in VerifyOutcomes("mx"), spfO \in VerifyOutcomes("spfTxt"),
       dmarcO \in VerifyOutcomes("dmarcTxt"), aO \in VerifyOutcomes("a"),
       aaaaO \in VerifyOutcomes("aaaa"), sig \in SignalSets :
        LET outs == [mx |-> mxO, spfTxt |-> spfO, dmarcTxt |-> dmarcO, a |-> aO, aaaa |-> aaaaO]
            ro == resolveOptions(run.options)
            k  == checkDNSJoin(settledCall(ro.dnsOpts, outs))
            r  == afterDns(run, k.result, sig)
            a  == allow(limiter, strOf(run.normalized.domain), now)
        IN  /\ run.pc = "dns"
            /\ IF k.pc = "rejected"
               THEN /\ run' = [run EXCEPT !.pc = "rejected"]
                    /\ UNCHANGED <<pools, limiter, calls>>
               ELSE IF ro.smtpOpts.enabled
               THEN /\ pools' = pooledLimiter(pools, ro.smtpOpts.maxConnectionsPerDomainPerMinute)
                    /\ limiter' = a.lim
                    /\ run' = [r EXCEPT !.pc = "smtp", !.io.allowCalls = @ + 1]
                    /\ calls' = [calls EXCEPT ![SeqCall] =
                                    IF a.ret THEN lookup(IdleCall, strOf(run.normalized.domain))
                                    ELSE denied(IdleCall, strOf(run.normalized.domain))]
               ELSE /\ catchAllOrFinish(r)
                    /\ UNCHANGED <<pools, limiter>>
            /\ UNCHANGED <<now, netlog, lastAllow, admitted>>

\* the replies of the servers the validation's probes talk to
VerifyChunks == { <<l>> : l \in { <<"2", "5", "0", " ", "o", "k">>,
                                   <<"4", "5", "0", " ", "g">>,
                                   <<"5", "5", "0", " ", "n", "o">> } }

\* a reply arrives on the open socket of the probe under way
RunData == \E chunk \in VerifyChunks : ProbeDeliver(SeqCall, onData(calls[SeqCall].s, chunk))

\* the answers of the MX lookups of the call's probes: the host, or none
VerifyHostLists == { <<>>, <<Hosts[1]>> }

\* the checkDNS of the call's probeSmtp resolves with the MX hosts
RunLookupDone ==
    \E hosts \in VerifyHostLists :
        LET k == afterLookup(calls[SeqCall], hosts)
        IN  /\ run.pc = "smtp"
            /\ calls[SeqCall].pc = "dns"
            /\ calls' = [calls EXCEPT ![SeqCall] = k]
            /\ netlog' = IF k.opened > calls[SeqCall].opened
                         THEN [netlog EXCEPT ![k.domain] = Append(@, now)]
                         ELSE netlog
            /\ UNCHANGED <<now, limVars>>

\* the checkDNS of the call's checkCatchAll resolves with the MX hosts
RunDetectLookupDone ==
    \E hosts \in VerifyHostLists :
        /\ run.pc = "catchAll"
        /\ calls[SeqCall].pc = "dns"
        /\ calls' = [calls EXCEPT ![SeqCall] =
                        detectAfterLookup(@, hosts, CHOOSE part \in RandomParts : TRUE)]
        /\ UNCHANGED <<now, netlog, limVars>>

\* probeSmtp has returned: the rest of step 12, then step 13 or the end
RunSmtpDone ==
    LET k == calls[SeqCall]
        r == afterSmtp([run EXCEPT !.io.smtpQueries = k.queries, !.io.smtpOpened = k.opened],
                       k.result)
    IN  /\ run.pc = "smtp"
        /\ k.pc = "done"
        /\ catchAllOrFinish(r)
        /\ netlog' = [d \in DOMAIN netlog |-> <<>>]
        /\ UNCHANGED <<now, limVars, pools>>

\* checkCatchAll has returned: the rest of step 13 and the end
RunCatchAllDone ==
    LET k == calls[SeqCall]
        r == afterCatchAll([run EXCEPT !.io.catchAllQueries = k.queries,
                                       !.io.catchAllOpened = k.opened],
                           k.result)
    IN  /\ run.pc = "catchAll"
        /\ k.pc = "done"
        /\ run' = finish(r)
        /\ calls' = [calls EXCEPT ![SeqCall] = IdleCall]
        /\ UNCHANGED <<now, netlog, limVars, pools>>

\* the caller has the result; the next call can start
RunReturn ==
    /\ run.pc = "done"
    /\ run' = IdleRunValue
    /\ UNCHANGED <<now, limVars, probeVars, pools>>

\* the validation calls of one process the pools are followed through
MaxCalls == 4

\* a validation call seen from the pools: createDnsCache(options), and
\* getLimiter(limit) when the SMTP stage is enabled; the instances the call
\* works with are recorded
PoolUse(options) ==
    LET ro    == resolveOptions(options)
        limit == ro.smtpOpts.maxConnectionsPerDomainPerMinute
        p1    == createDnsCache(pools, options)
        p2    == IF ro.smtpOpts.enabled THEN pooledLimiter(p1, limit) ELSE p1
        use   == [ config  |-> cacheConfigOf(options),
                   smtp    |-> ro.smtpOpts.enabled,
                   limit   |-> limit,
                   cache   |-> cacheOf(pools, options).id,
                   limiter |-> IF ro.smtpOpts.enabled THEN limiterOf(p1, limit).id ELSE 0 ]
    IN  /\ Len(pools.uses) < MaxCalls
        /\ pools' = [p2 EXCEPT !.uses = Append(@, use)]
        /\ UNCHANGED run

(***************************************************************************)
(* verifyEmailBatch and verifyEmailStream (src/batch.ts).  The emails of   *)
(* a call are numbered 1..total; a validation is the verifyEmail call      *)
(* started for an email, and it settles on its own, resolved or rejected.  *)
(***************************************************************************)
\* no call; chunks counts the chunks that started a validation, progress is
\* the history of the `completed` arguments onProgress was called with
IdleJob ==
    [ pc |-> "idle", api |-> "none", total |-> 0, concurrency |-> 1, continueOnError |-> TRUE,
      queue |-> <<>>, batch |-> <<>>, chunks |-> 0, next |-> 1, buffer |-> <<>>,
      pending |-> <<>>, status |-> <<>>, startedIn |-> <<>>, results |-> <<>>,
      progress |-> <<>> ]

\* the validations that have started and not settled
InFlight(j) == {id \in DOMAIN j.status : j.status[id] = "running"}

\* a splice that takes the whole array
spliceAll(array, deleteCount) == [removed |-> array, rest |-> <<>>]

\* array.splice(0, deleteCount): the elements removed and the array left
splice(array, deleteCount) ==
    LET n == min(Len(array), max(deleteCount, 0))
    IN  [removed |-> SubSeq(array, 1, n), rest |-> SubSeq(array, n + 1, Len(array))]

\* verifyEmail(email, verifyOptions) is called for each email of ids, in the
\* chunk (or drain) numbered part
started(j, ids, part) ==
    [j EXCEPT !.status = [id \in DOMAIN @ \cup {ids[i] : i \in 1..Len(ids)} |->
                              IF id \in DOMAIN @ THEN @[id] ELSE "running"],
              !.startedIn = [id \in DOMAIN @ \cup {ids[i] : i \in 1..Len(ids)} |->
                                 IF id \in DOMAIN @ THEN @[id] ELSE part]]

\* what the mapper's promise of a batch / processEmail gives for a settled
\* validation: the result, the error entry, or the error thrown again
mapped(j, id) ==
    IF j.status[id] = "resolved" THEN "result"
    ELSE IF j.continueOnError THEN "error"
    ELSE "thrown"

\* verifyEmailBatch(emails, options) up to the `while`
BatchCall(total, concurrency, continueOnError) ==
    /\ job.pc = "idle"
    /\ job' = [IdleJob EXCEPT !.pc = "loop", !.api = "batch", !.total = total,
                              !.concurrency = concurrency,
                              !.continueOnError = continueOnError,
                              !.queue = [i \in 1..total |-> i]]

\* one turn of the `while`: `queue.splice(0, concurrency)`, the validations
\* of the chunk are started, and the call awaits Promise.all
BatchChunk ==
    LET sp == splice(job.queue, job.concurrency)
    IN  /\ job.pc = "loop" /\ job.api = "batch"
        /\ Len(job.queue) > 0
        /\ job' = [started(job, sp.removed, job.chunks + 1) EXCEPT
                      !.pc = "join", !.queue = sp.rest, !.batch = sp.removed,
                      !.chunks = IF Len(sp.removed) > 0 THEN @ + 1 ELSE @]

\* a validation settles
JobSettle(id, outcome) ==
    /\ id \in InFlight(job)
    /\ job' = [job EXCEPT !.status[id] = outcome]

\* Promise.all(batchPromises) settles: it rejects as soon as a mapper has
\* thrown, and resolves when every validation of the chunk has settled
BatchJoin ==
    LET ids == {job.batch[i] : i \in 1..Len(job.batch)}
    IN  /\ job.pc = "join"
        /\ IF \E id \in ids : job.status[id] # "running" /\ mapped(job, id) = "thrown"
           THEN job' = [job EXCEPT !.pc = "rejected"]
           ELSE /\ \A id \in ids : job.status[id] # "running"
                /\ job' = [job EXCEPT
                              !.pc = "loop",
                              !.results = @ \o [i \in 1..Len(job.batch) |->
                                                   [email |-> job.batch[i],
                                                    kind |-> mapped(job, job.batch[i])]],
                              !.progress = @ \o [i \in 1..Len(job.batch) |->
                                                    Len(job.results) + i]]

\* the `while` ends and the BatchResult is returned
BatchReturn ==
    /\ job.pc = "loop" /\ job.api = "batch"
    /\ Len(job.queue) = 0
    /\ job' = [job EXCEPT !.pc = "done"]

\* verifyEmailStream(emails, options) up to the `for await`
StreamCall(total, concurrency, continueOnError) ==
    /\ job.pc = "idle"
    /\ job' = [IdleJob EXCEPT !.pc = "iterate", !.api = "stream", !.total = total,
                              !.concurrency = concurrency,
                              !.continueOnError = continueOnError]

\* the pc of the `for await` body after `pending` has changed: the inner
\* `while (pending.length >= concurrency)` awaits, or the next email is taken
afterPending(j) ==
    [j EXCEPT !.pc = IF Len(j.pending) >= j.concurrency THEN "await" ELSE "iterate"]

\* `while (buffer.length > 0) pending.push(processEmail(buffer.shift()!))`
drain(j) ==
    [started(j, j.buffer, 1) EXCEPT !.pc = "flush", !.buffer = <<>>, !.pending = @ \o j.buffer]

\* the iterable gives its next email: `buffer.push(email)`, and a
\* validation is started for the head of the buffer when the buffer holds
\* `concurrency` emails; or the iterable is exhausted and the buffered
\* emails are started
StreamPull ==
    /\ job.pc = "iterate"
    /\ IF job.next <= job.total
       THEN LET pushed == Append(job.buffer, job.next)
                j1     == [job EXCEPT !.next = @ + 1, !.buffer = pushed]
            IN  job' = IF Len(pushed) >= job.concurrency
                       THEN afterPending([started(j1, <<Head(pushed)>>, 0) EXCEPT
                                             !.buffer = Tail(pushed),
                                             !.pending = Append(@, Head(pushed))])
                       ELSE afterPending(j1)
       ELSE job' = drain(job)

\* `const result = await pending.shift()!; yield result;` in the loop
\* (pc await) or after it (pc flush); a thrown error ends the generator
StreamYield ==
    LET id == Head(job.pending)
        j1 == [job EXCEPT !.pending = Tail(@),
                          !.results = Append(@, [email |-> id, kind |-> mapped(job, id)])]
    IN  /\ job.pc \in {"await", "flush"}
        /\ Len(job.pending) > 0
        /\ job.status[id] # "running"
        /\ job' = IF mapped(job, id) = "thrown" THEN [job EXCEPT !.pc = "rejected"]
                  ELSE IF job.pc = "await" THEN afterPending(j1)
                  ELSE j1

\* the buffer is drained, the last result is yielded and the generator returns
StreamReturn ==
    /\ job.pc = "flush"
    /\ Len(job.pending) = 0 /\ Len(job.buffer) = 0
    /\ job' = [job EXCEPT !.pc = "done"]

(***************************************************************************)
(* The specifications.                                                     *)
(***************************************************************************)
IdleProbe ==
    /\ calls = <<>>
    /\ netlog = <<>>

IdleDns ==
    /\ dns = <<>>
    /\ queries = <<>>
    /\ completed = <<>>

IdleRun ==
    /\ run = <<>>
    /\ pools = <<>>
    /\ job = <<>>

InitSession ==
    /\ \E kind \in Kinds, emitsEnd \in BOOLEAN : sess = NewSession(kind, emitsEnd)
    /\ cause = NoEvent
    /\ lastEv = NoEvent
    /\ now = 0
    /\ IdleLim /\ IdleCache /\ IdleProbe /\ IdleDns /\ IdleRun

NextSession ==
    \/ SessData /\ UNCHANGED <<now, limVars, cacheVars, probeVars, dnsVars, runVars>>
    \/ SessError /\ UNCHANGED <<now, limVars, cacheVars, probeVars, dnsVars, runVars>>
    \/ SessEnd /\ UNCHANGED <<now, limVars, cacheVars, probeVars, dnsVars, runVars>>
    \/ SessTimer /\ UNCHANGED <<now, limVars, cacheVars, probeVars, dnsVars, runVars>>

SpecSession == InitSession /\ [][NextSession]_vars

InitLimiter ==
    /\ now = 0
    /\ IdleSess /\ IdleRun /\ IdleLim /\ IdleCache /\ IdleProbe /\ IdleDns

NextLimiter ==
    \/ Allow /\ UNCHANGED <<now, sessVars, cacheVars, probeVars, dnsVars, runVars>>
    \/ Tick /\ UNCHANGED <<sessVars, limVars, cacheVars, probeVars, dnsVars, runVars>>

SpecLimiter == InitLimiter /\ [][NextLimiter]_vars

InitCache ==
    /\ now = 0
    /\ IdleSess /\ IdleRun /\ IdleLim /\ IdleCache /\ IdleProbe /\ IdleDns

NextCache ==
    \/ Get /\ UNCHANGED <<now, sessVars, limVars, probeVars, dnsVars, runVars>>
    \/ Set /\ UNCHANGED <<now, sessVars, limVars, probeVars, dnsVars, runVars>>
    \/ CacheTick /\ UNCHANGED <<sessVars, limVars, cacheVars, probeVars, dnsVars, runVars>>

SpecCache == InitCache /\ [][NextCache]_vars


\* one checkDNS call on an empty cache, under every toggle and every way
\* each of its lookups can end
InitDns ==
    /\ now = 0
    /\ IdleSess /\ IdleRun /\ IdleLim /\ IdleCache /\ IdleProbe
    /\ dns = [c \in {"d1"} |-> IdleDnsCall]
    /\ queries = [k \in DnsKeys |-> 0]
    /\ completed = [k \in DnsKeys |-> NoLookup]

NextDns ==
    \/ \E c \in DOMAIN dns, opts \in DnsToggles :
            DnsStart(c, opts)
            /\ UNCHANGED <<sessVars, limVars, lastOp, lastSet, touchOrder, probeVars, runVars>>
    \/ \E c \in DOMAIN dns, lk \in LookupSet : \E o \in Outcomes(lk) :
            DnsSettle(c, lk, o) /\ UNCHANGED <<sessVars, limVars, lastOp, lastSet, touchOrder, probeVars, runVars>>
    \/ \E c \in DOMAIN dns :
            DnsJoin(c) /\ UNCHANGED <<sessVars, limVars, lastOp, lastSet, touchOrder, probeVars, runVars>>

SpecDns == InitDns /\ [][NextDns]_vars

\* checkDNS calls sharing one DnsCache under an advancing clock: the calls
\* of verifyEmail (every toggle on) and of probeSmtp and checkCatchAll (MX
\* only), two at a time, each lookup ending in one record set, an error or
\* a timeout
SharedToggles == { [mx |-> TRUE, spf |-> FALSE, dmarc |-> FALSE] }

SharedOutcomes(lk) ==
    { o \in Outcomes(lk) :
        /\ o.how = "records" => o.records = (CHOOSE r \in Answers(lk) : Len(r) > 0)
        /\ o.how = "error" => lk = "mx" }

InitDnsShared ==
    /\ now = 0
    /\ IdleSess /\ IdleRun /\ IdleLim /\ IdleCache /\ IdleProbe
    /\ dns = [c \in {"d1"} |-> IdleDnsCall]
    /\ queries = [k \in DnsKeys |-> 0]
    /\ completed = [k \in DnsKeys |-> NoLookup]

NextDnsShared ==
    \/ \E c \in DOMAIN dns, opts \in SharedToggles :
            DnsStart(c, opts)
            /\ UNCHANGED <<sessVars, limVars, lastOp, lastSet, touchOrder, probeVars, runVars>>
    \/ \E c \in DOMAIN dns, lk \in LookupSet : \E o \in SharedOutcomes(lk) :
            DnsSettle(c, lk, o) /\ UNCHANGED <<sessVars, limVars, lastOp, lastSet, touchOrder, probeVars, runVars>>
    \/ \E c \in DOMAIN dns :
            DnsJoin(c) /\ UNCHANGED <<sessVars, limVars, lastOp, lastSet, touchOrder, probeVars, runVars>>
    \/ \E c \in DOMAIN dns :
            DnsReturn(c) /\ UNCHANGED <<sessVars, limVars, lastOp, lastSet, touchOrder, probeVars, runVars>>
    \/ \E o \in SharedOutcomes("mx") :
            DnsOther(keyOf("mx", DnsDomain), o) /\ UNCHANGED <<sessVars, limVars, lastOp, lastSet, touchOrder, probeVars, runVars>>
    \/ \E o \in {oo \in SharedOutcomes("mx") : oo.how = "records"} :
            DnsOther(OtherKey, o) /\ UNCHANGED <<sessVars, limVars, lastOp, lastSet, touchOrder, probeVars, runVars>>
    \/ DnsTick /\ UNCHANGED <<sessVars, limVars, lastOp, lastSet, touchOrder, probeVars, runVars>>

SpecDnsShared == InitDnsShared /\ [][NextDnsShared]_vars

\* two checkDNS calls (those of probeSmtp and checkCatchAll, or of two
\* validations of the same domain) running concurrently on one DnsCache,
\* interleaved within one millisecond: an entry leaves the cache by
\* eviction only
DnsPair == {"d1", "d2"}

InitDnsPair ==
    /\ now = 0
    /\ IdleSess /\ IdleRun /\ IdleLim /\ IdleCache /\ IdleProbe
    /\ dns = [c \in DnsPair |-> IdleDnsCall]
    /\ queries = [k \in DnsKeys |-> 0]
    /\ completed = [k \in DnsKeys |-> NoLookup]

DnsPairOthers == UNCHANGED <<sessVars, limVars, lastOp, lastSet, touchOrder, probeVars, runVars>>

NextDnsPair ==
    \/ \E c \in DnsPair, opts \in SharedToggles : DnsStart(c, opts) /\ DnsPairOthers
    \/ \E c \in DnsPair, lk \in LookupSet : \E o \in SharedOutcomes(lk) :
            DnsSettle(c, lk, o) /\ DnsPairOthers
    \/ \E c \in DnsPair : DnsJoin(c) /\ DnsPairOthers
    \/ \E c \in DnsPair : DnsReturn(c) /\ DnsPairOthers

SpecDnsPair == InitDnsPair /\ [][NextDnsPair]_vars

\* one checkCatchAll call after the other
InitCatchAll ==
    /\ now = 0
    /\ IdleSess /\ IdleRun /\ IdleLim /\ IdleCache /\ IdleDns
    /\ calls = [c \in {SeqCall} |-> IdleDetect]
    /\ netlog = <<>>

NextCatchAll ==
    \/ DetectStart(SeqCall) /\ UNCHANGED <<sessVars, cacheVars, dnsVars, runVars>>
    \/ DetectLookupDone(SeqCall) /\ UNCHANGED <<sessVars, cacheVars, dnsVars, runVars>>
    \/ DetectData(SeqCall) /\ UNCHANGED <<sessVars, cacheVars, dnsVars, runVars>>
    \/ ProbeError(SeqCall) /\ UNCHANGED <<sessVars, cacheVars, dnsVars, runVars>>
    \/ ProbeEnd(SeqCall) /\ UNCHANGED <<sessVars, cacheVars, dnsVars, runVars>>
    \/ ProbeTimer(SeqCall) /\ UNCHANGED <<sessVars, cacheVars, dnsVars, runVars>>
    \/ DetectResume(SeqCall) /\ UNCHANGED <<sessVars, cacheVars, dnsVars, runVars>>
    \/ DetectReturn(SeqCall) /\ UNCHANGED <<sessVars, cacheVars, dnsVars, runVars>>

SpecCatchAll == InitCatchAll /\ [][NextCatchAll]_vars

\* the inputs of the validation calls: every short text over an alphabet
\* that cannot make a valid address, and addresses of the domain a.com
MaxEmailLen == 3

ShortEmails == UNION { [1..n -> {"a", "@", " "}] : n \in 0..MaxEmailLen }

PlainEmail == <<"a", "@", "a", ".", "c", "o", "m">>

PassingEmails ==
    { PlainEmail,
      <<" ", "a", "@", "A", ".", "C", "O", "M", " ">>,
      <<".", "a", "@", "a", ".", "c", "o", "m">> }

FailingEmails ==
    { <<"a", "@", "a", "c", "o", "m">>,
      <<"a", "@", ".", "c", "o", "m">>,
      <<"a", "@", "a", " ", "c", "o", "m">>,
      <<"a", "@", "a", "@", "a", ".", "c", "o", "m">>,
      <<"a", ".", "c", "o", "m">>,
      <<"@", "a", ".", "c", "o", "m">> }

\* VerifyOptions: options with the path set to the value
with(options, path, value) == (path :> value) @@ options

\* the options that spell out one default
NoOptions == ("mode" :> "basic")

\* SMTP probing and catch-all detection enabled
AllOn ==
    with(with(with(NoOptions, "smtp.enabled", TRUE),
              "smtp.maxConnectionsPerDomainPerMinute", ProbeLimit),
         "catchAll.enabled", TRUE)

\* every optional stage and DNS signal disabled
AllOff ==
    with(with(with(with(with(with(with(NoOptions, "smtp.enabled", FALSE),
                                  "catchAll.enabled", FALSE),
                             "dns.mx", FALSE),
                        "dns.spf", FALSE),
                   "dns.dmarc", FALSE),
              "typoSuggestions", FALSE),
         "disposable.enabled", FALSE)

\* the options of the validation calls: the defaults, every stage on, every
\* stage off, and every stage on but one
OptionSets ==
    { NoOptions,
      AllOn,
      AllOff,
      with(AllOn, "smtp.enabled", FALSE),
      with(AllOn, "catchAll.enabled", FALSE),
      with(AllOn, "dns.mx", FALSE),
      with(AllOn, "dns.spf", FALSE),
      with(AllOn, "dns.dmarc", FALSE),
      with(AllOn, "typoSuggestions", FALSE),
      with(AllOn, "disposable.enabled", FALSE),
      with(with(AllOn, "roleEmail.enabled", FALSE), "patterns.enabled", FALSE) }

\* full output under caller-supplied weights of mixed sign: a missing MX
\* record costs 150 points, a missing SPF record earns 80
MixedWeights ==
    with(with(NoOptions, "output", "full"),
         "scoring.weights", [noMx |-> pts(150), noSpf |-> 0 - pts(80)])

\* options that matter to the gate and to the shape of the result
GateOptionSets ==
    { NoOptions,
      with(NoOptions, "mode", "rfc"),
      with(NoOptions, "output", "full"),
      with(NoOptions, "scoring.weights", [smtpUnknown |-> 5, noMx |-> 101]),
      with(NoOptions, "scoring.thresholds.valid", 50),
      with(NoOptions, "scoring.thresholds.unknown", 0),
      MixedWeights }

\* the validation calls: every input under the gate's options through both
\* entry points, the inputs the gate stops with every stage on, and the
\* plain address under every option set
ValidationCalls ==
    { [entry |-> e, email |-> m, options |-> o] :
          e \in Entries, m \in ShortEmails \cup FailingEmails \cup PassingEmails,
          o \in GateOptionSets }
        \cup { [entry |-> e, email |-> m, options |-> AllOn] :
                  e \in Entries, m \in ShortEmails \cup FailingEmails \cup {PlainEmail} }
        \cup { [entry |-> "verifyEmail", email |-> PlainEmail, options |-> o] : o \in OptionSets }

InitVerify ==
    /\ now = 0
    /\ IdleSess /\ IdleCache /\ IdleDns
    /\ limiter = getLimiter(ProbeLimit)
    /\ lastAllow = NoAllow
    /\ admitted = [k \in Keys |-> <<>>]
    /\ calls = [c \in {SeqCall} |-> IdleCall]
    /\ netlog = [d \in ProbeDomains |-> <<>>]
    /\ run = IdleRunValue
    /\ pools = NoPools
    /\ job = <<>>

NextVerify ==
    \/ \E call \in ValidationCalls :
            RunStart(call.entry, call.email, call.options)
            /\ UNCHANGED <<sessVars, cacheVars, dnsVars, job>>
    \/ RunDnsDone /\ UNCHANGED <<sessVars, cacheVars, dnsVars, job>>
    \/ RunLookupDone /\ UNCHANGED <<sessVars, cacheVars, dnsVars, runVars>>
    \/ RunData /\ UNCHANGED <<sessVars, cacheVars, dnsVars, runVars>>
    \/ run.pc = "smtp" /\ ProbeResume(SeqCall) /\ UNCHANGED <<sessVars, cacheVars, dnsVars, runVars>>
    \/ RunDetectLookupDone /\ UNCHANGED <<sessVars, cacheVars, dnsVars, runVars>>
    \/ run.pc = "catchAll" /\ DetectResume(SeqCall) /\ UNCHANGED <<sessVars, cacheVars, dnsVars, runVars>>
    \/ ProbeError(SeqCall) /\ UNCHANGED <<sessVars, cacheVars, dnsVars, runVars>>
    \/ ProbeEnd(SeqCall) /\ UNCHANGED <<sessVars, cacheVars, dnsVars, runVars>>
    \/ ProbeTimer(SeqCall) /\ UNCHANGED <<sessVars, cacheVars, dnsVars, runVars>>
    \/ RunSmtpDone /\ UNCHANGED <<sessVars, cacheVars, dnsVars, job>>
    \/ RunCatchAllDone /\ UNCHANGED <<sessVars, cacheVars, dnsVars, job>>
    \/ RunReturn /\ UNCHANGED <<sessVars, cacheVars, dnsVars, job>>

SpecVerify == InitVerify /\ [][NextVerify]_vars

(***************************************************************************)
(* One email validated three ways side by side: verifyEmail with output    *)
(* basic, verifyEmail with output full and debugVerifyEmail, under the     *)
(* same options otherwise and the same behaviour of DNS, of the SMTP       *)
(* servers and of the limiter.  run is the basic call, with the other two  *)
(* in its fields full and debug; the probes of the three are one probe in  *)
(* the call slot SeqCall, followed for the basic call.                     *)
(***************************************************************************)
\* the three calls as one value
Trio(b, f, d) == [full |-> f, debug |-> d] @@ b

\* the basic call of the three
Basic == [k \in DOMAIN run \ {"full", "debug"} |-> run[k]]

\* the call of one entry point on entry to runValidation
entered(entry, email, options) ==
    gate([IdleRunValue EXCEPT !.entry = entry, !.email = email, !.options = options,
                              !.runOptions = runOptionsOf(entry, options)])

\* runValidation of call r from the return of checkDNS to its next await
\* or its end
dnsReturned(r, outs, sig) ==
    LET ro == resolveOptions(r.options)
        k  == checkDNSJoin(settledCall(ro.dnsOpts, outs))
        r1 == afterDns(r, k.result, sig)
    IN  IF k.pc = "rejected" THEN [r EXCEPT !.pc = "rejected"]
        ELSE IF ro.smtpOpts.enabled THEN [r1 EXCEPT !.pc = "smtp", !.io.allowCalls = @ + 1]
        ELSE IF wantsCatchAll(r1) THEN [r1 EXCEPT !.pc = "catchAll"]
        ELSE finish(r1)

\* runValidation of call r from the return of probeSmtp, whose call was k
smtpReturned(r, k) ==
    LET r1 == afterSmtp([r EXCEPT !.io.smtpQueries = k.queries, !.io.smtpOpened = k.opened],
                        k.result)
    IN  IF wantsCatchAll(r1) THEN [r1 EXCEPT !.pc = "catchAll"] ELSE finish(r1)

\* runValidation of call r from the return of checkCatchAll, whose call was k
catchAllReturned(r, k) ==
    finish(afterCatchAll([r EXCEPT !.io.catchAllQueries = k.queries,
                                   !.io.catchAllOpened = k.opened],
                         k.result))

\* the call slot of the probe the basic call b awaits next, if any
probeOf(b, admits) ==
    CASE b.pc = "smtp" -> IF admits THEN lookup(IdleCall, strOf(b.normalized.domain))
                          ELSE denied(IdleCall, strOf(b.normalized.domain))
      [] b.pc = "catchAll" -> detectLookup(IdleDetect, strOf(b.normalized.domain))
      [] OTHER -> IdleCall

\* the three calls enter runValidation
TrioStart(email, options) ==
    /\ run.pc = "idle"
    /\ run' = Trio(entered("verifyEmail", email, with(options, "output", "basic")),
                   entered("verifyEmail", email, with(options, "output", "full")),
                   entered("debugVerifyEmail", email, options))
    /\ pools' = createDnsCache(pools, options)
    /\ UNCHANGED <<now, limVars, probeVars>>

\* checkDNS returns the same to the three
TrioDnsDone ==
    \E mxO \in VerifyOutcomes("mx"), spfO \in VerifyOutcomes("spfTxt"),
       dmarcO \in VerifyOutcomes("dmarcTxt"), aO \in VerifyOutcomes("a"),
       aaaaO \in VerifyOutcomes("aaaa"), sig \in SignalSets :
        LET outs == [mx |-> mxO, spfTxt |-> spfO, dmarcTxt |-> dmarcO, a |-> aO, aaaa |-> aaaaO]
            b    == dnsReturned(Basic, outs, sig)
            a    == allow(limiter, strOf(run.normalized.domain), now)
        IN  /\ run.pc = "dns"
            /\ run' = Trio(b, dnsReturned(run.full, outs, sig), dnsReturned(run.debug, outs, sig))
            /\ IF b.pc = "smtp"
               THEN /\ pools' = pooledLimiter(pools, resolveOptions(run.options).smtpOpts.maxConnectionsPerDomainPerMinute)
                    /\ limiter' = a.lim
               ELSE UNCHANGED <<pools, limiter>>
            /\ calls' = [calls EXCEPT ![SeqCall] = probeOf(b, a.ret)]
            /\ UNCHANGED <<now, netlog, lastAllow, admitted>>

\* probeSmtp returns the same to the three
TrioSmtpDone ==
    LET k == calls[SeqCall]
        b == smtpReturned(Basic, k)
    IN  /\ run.pc = "smtp"
        /\ k.pc = "done"
        /\ run' = Trio(b, smtpReturned(run.full, k), smtpReturned(run.debug, k))
        /\ calls' = [calls EXCEPT ![SeqCall] = probeOf(b, TRUE)]
        /\ netlog' = [d \in DOMAIN netlog |-> <<>>]
        /\ UNCHANGED <<now, limVars, pools>>

\* checkCatchAll returns the same to the three
TrioCatchAllDone ==
    LET k == calls[SeqCall]
    IN  /\ run.pc = "catchAll"
        /\ k.pc = "done"
        /\ run' = Trio(catchAllReturned(Basic, k), catchAllReturned(run.full, k),
                       catchAllReturned(run.debug, k))
        /\ calls' = [calls EXCEPT ![SeqCall] = IdleCall]
        /\ UNCHANGED <<now, netlog, limVars, pools>>

\* the callers have the results
TrioReturn ==
    /\ run.pc = "done"
    /\ run' = Trio(IdleRunValue, IdleRunValue, IdleRunValue)
    /\ UNCHANGED <<now, limVars, probeVars, pools>>

\* the inputs of the three calls: addresses the gate stops and lets
\* through, under every option set and under weights of mixed sign
TrioCalls ==
    { [email |-> m, options |-> o] :
          m \in {PlainEmail} \cup FailingEmails, o \in OptionSets \cup {MixedWeights} }

InitTrio ==
    /\ now = 0
    /\ IdleSess /\ IdleCache /\ IdleDns
    /\ limiter = getLimiter(ProbeLimit)
    /\ lastAllow = NoAllow
    /\ admitted = [k \in Keys |-> <<>>]
    /\ calls = [c \in {SeqCall} |-> IdleCall]
    /\ netlog = [d \in ProbeDomains |-> <<>>]
    /\ run = Trio(IdleRunValue, IdleRunValue, IdleRunValue)
    /\ pools = NoPools
    /\ job = <<>>

TrioOthers == UNCHANGED <<sessVars, cacheVars, dnsVars, job>>

NextTrio ==
    \/ \E call \in TrioCalls : TrioStart(call.email, call.options) /\ TrioOthers
    \/ TrioDnsDone /\ TrioOthers
    \/ RunLookupDone /\ TrioOthers /\ UNCHANGED <<run, pools>>
    \/ RunData /\ TrioOthers /\ UNCHANGED <<run, pools>>
    \/ run.pc = "smtp" /\ ProbeResume(SeqCall) /\ TrioOthers /\ UNCHANGED <<run, pools>>
    \/ RunDetectLookupDone /\ TrioOthers /\ UNCHANGED <<run, pools>>
    \/ run.pc = "catchAll" /\ DetectResume(SeqCall) /\ TrioOthers /\ UNCHANGED <<run, pools>>
    \/ ProbeError(SeqCall) /\ TrioOthers /\ UNCHANGED <<run, pools>>
    \/ ProbeEnd(SeqCall) /\ TrioOthers /\ UNCHANGED <<run, pools>>
    \/ ProbeTimer(SeqCall) /\ TrioOthers /\ UNCHANGED <<run, pools>>
    \/ TrioSmtpDone /\ TrioOthers
    \/ TrioCatchAllDone /\ TrioOthers
    \/ TrioReturn /\ TrioOthers

SpecTrio == InitTrio /\ [][NextTrio]_vars

\* the cache and limiter configurations of the calls: the defaults left out
\* and spelled out, and pairs of numbers whose digits run together alike
PoolOptionSets ==
    { NoOptions,
      with(NoOptions, "cache.dnsTtlMs", 10 * 60 * 1000),
      with(with(NoOptions, "cache.dnsTtlMs", 1), "cache.maxEntries", 11),
      with(with(NoOptions, "cache.dnsTtlMs", 11), "cache.maxEntries", 1),
      with(NoOptions, "smtp.enabled", TRUE),
      with(with(NoOptions, "smtp.enabled", TRUE), "smtp.maxConnectionsPerDomainPerMinute", 10),
      with(with(NoOptions, "smtp.enabled", TRUE), "smtp.maxConnectionsPerDomainPerMinute", 1),
      with(with(with(with(NoOptions, "smtp.enabled", TRUE),
                     "smtp.maxConnectionsPerDomainPerMinute", 1),
                "cache.dnsTtlMs", 1), "cache.maxEntries", 11),
      with(with(with(NoOptions, "smtp.enabled", TRUE), "cache.dnsTtlMs", 11),
           "cache.maxEntries", 1) }

InitPools ==
    /\ now = 0
    /\ IdleSess /\ IdleLim /\ IdleCache /\ IdleDns /\ IdleProbe
    /\ run = IdleRunValue
    /\ pools = NoPools
    /\ job = <<>>

NextPools ==
    \E options \in PoolOptionSets :
        PoolUse(options) /\ UNCHANGED <<now, sessVars, limVars, cacheVars, probeVars, dnsVars, job>>

SpecPools == InitPools /\ [][NextPools]_vars
\* the scoring functions called on their own.  Thresholds range over every
\* triple of small numbers, in descending order or not, and the scores over
\* the numbers around them and around the defaults; clampScore is given
\* every number of halves from below 0 to above 100
MaxThreshold == 3

MaxOver == 3

ThresholdSets ==
    {Null} \cup [valid : 0..MaxThreshold, risky : 0..MaxThreshold, unknown : 0..MaxThreshold]

ScoreSamples == (-1..(MaxThreshold + 1)) \cup {29, 30, 59, 60, 84, 85, 100}

\* no scoring call
ScoringInput ==
    [ pc |-> "input", kind |-> "verdict", s1 |-> 0, s2 |-> 0, thresholds |-> Null,
      v1 |-> "none", v2 |-> "none", x |-> 0, c |-> 0, cc |-> 0 ]

InitScoring ==
    /\ now = 0
    /\ IdleSess /\ IdleLim /\ IdleCache /\ IdleDns /\ IdleProbe
    /\ pools = NoPools
    /\ job = <<>>
    /\ \/ \E s1 \in ScoreSamples, s2 \in ScoreSamples, t \in ThresholdSets :
             /\ s1 <= s2
             /\ run = [ScoringInput EXCEPT !.s1 = s1, !.s2 = s2, !.thresholds = t]
       \/ \E x \in (-MaxOver)..(pts(100) + MaxOver) :
             run = [ScoringInput EXCEPT !.kind = "clamp", !.x = x]

\* computeVerdict(s1, thresholds) and computeVerdict(s2, thresholds)
ScoreVerdicts ==
    /\ run.pc = "input" /\ run.kind = "verdict"
    /\ run' = [run EXCEPT !.pc = "computed",
                          !.v1 = computeVerdict(run.s1, run.thresholds),
                          !.v2 = computeVerdict(run.s2, run.thresholds)]
    /\ UNCHANGED pools

\* clampScore(x), and clampScore of what it returned
ScoreClamp ==
    /\ run.pc = "input" /\ run.kind = "clamp"
    /\ run' = [run EXCEPT !.pc = "computed",
                          !.c = clampScore(run.x),
                          !.cc = clampScore(pts(clampScore(run.x)))]
    /\ UNCHANGED pools

NextScoring ==
    \/ ScoreVerdicts /\ UNCHANGED <<now, sessVars, limVars, cacheVars, probeVars, dnsVars, job>>
    \/ ScoreClamp /\ UNCHANGED <<now, sessVars, limVars, cacheVars, probeVars, dnsVars, job>>

SpecScoring == InitScoring /\ [][NextScoring]_vars

\* the batch and stream calls: up to MaxEmails emails under a concurrency of
\* up to MaxConcurrency
MaxEmails == 5

MaxConcurrency == 3

IdleAll ==
    /\ now = 0
    /\ IdleSess /\ IdleLim /\ IdleCache /\ IdleDns /\ IdleProbe
    /\ run = IdleRunValue
    /\ pools = NoPools

InitBatch == IdleAll /\ job = IdleJob

OthersUnchanged == UNCHANGED <<now, sessVars, limVars, cacheVars, probeVars, dnsVars, run, pools>>

NextBatch ==
    \/ \E total \in 0..MaxEmails, concurrency \in 1..MaxConcurrency, continueOnError \in BOOLEAN :
          BatchCall(total, concurrency, continueOnError) /\ OthersUnchanged
    \/ BatchChunk /\ OthersUnchanged
    \/ \E id \in 1..MaxEmails, outcome \in {"resolved", "rejected"} :
          job.api = "batch" /\ JobSettle(id, outcome) /\ OthersUnchanged
    \/ BatchJoin /\ OthersUnchanged
    \/ BatchReturn /\ OthersUnchanged

SpecBatch == InitBatch /\ [][NextBatch]_vars

\* verifyEmailBatch under every integer concurrency, negative and zero
\* included, with validations that all resolve in the end (verifyEmail does
\* not reject) and an event loop that runs every continuation that is ready
BatchSettle == \E id \in 1..MaxEmails : job.api = "batch" /\ JobSettle(id, "resolved")

NextBatchLive ==
    \/ \E total \in 0..MaxEmails, concurrency \in -1..MaxConcurrency, continueOnError \in BOOLEAN :
          BatchCall(total, concurrency, continueOnError) /\ OthersUnchanged
    \/ BatchChunk /\ OthersUnchanged
    \/ BatchSettle /\ OthersUnchanged
    \/ BatchJoin /\ OthersUnchanged
    \/ BatchReturn /\ OthersUnchanged

SpecBatchLive ==
    /\ InitBatch /\ [][NextBatchLive]_vars
    /\ WF_vars(BatchChunk /\ OthersUnchanged)
    /\ WF_vars(BatchSettle /\ OthersUnchanged)
    /\ WF_vars(BatchJoin /\ OthersUnchanged)
    /\ WF_vars(BatchReturn /\ OthersUnchanged)

InitStream == IdleAll /\ job = IdleJob

NextStream ==
    \/ \E total \in 0..MaxEmails, concurrency \in 1..MaxConcurrency, continueOnError \in BOOLEAN :
          StreamCall(total, concurrency, continueOnError) /\ OthersUnchanged
    \/ StreamPull /\ OthersUnchanged
    \/ \E id \in 1..MaxEmails, outcome \in {"resolved", "rejected"} :
          job.api = "stream" /\ JobSettle(id, outcome) /\ OthersUnchanged
    \/ StreamYield /\ OthersUnchanged
    \/ StreamReturn /\ OthersUnchanged

SpecStream == InitStream /\ [][NextStream]_vars

(***************************************************************************)
(* Properties of the probe session (SpecSession).                          *)
(***************************************************************************)
\* the line carries a 3-digit reply code
IsReply(line) == Len(line) >= 3 /\ \A i \in 1..3 : line[i] \in Digits

Begins(line, a, b, c) == IsReply(line) /\ line[1] = a /\ line[2] = b /\ line[3] = c

\* the event is a reply received in stage rcpt
InRcpt(e) == e.ev = "data" /\ e.stage = "rcpt" /\ IsReply(e.line)

Accepting(e) == InRcpt(e) /\ Begins(e.line, "2", "5", "0")

Rejecting(e) ==
    InRcpt(e) /\ (\/ Begins(e.line, "5", "5", "0")
                  \/ Begins(e.line, "5", "5", "1")
                  \/ Begins(e.line, "5", "5", "3"))

Deferring(e) == InRcpt(e) /\ e.line[1] = "4"

\* C1: a mailbox probe session resolves valid exactly when the reply that
\* resolves it was received in stage rcpt and begins with 250, and invalid
\* exactly when that reply begins with 550, 551 or 553; a 4xx reply in stage
\* rcpt resolves unknown; in each of these cases the result carries the
\* 3-digit code of the reply, and a reply of one of these kinds received in
\* stage rcpt by an unresolved session always resolves it
C1_RcptClassification ==
    sess.kind = "mailbox" =>
        /\ sess.resolved =>
            /\ sess.result.status = "valid" <=> Accepting(cause)
            /\ sess.result.status = "invalid" <=> Rejecting(cause)
            /\ Deferring(cause) => sess.result.status = "unknown"
            /\ (Accepting(cause) \/ Rejecting(cause) \/ Deferring(cause))
                  => sess.result.code = cause.line[1] \o cause.line[2] \o cause.line[3]
        /\ (~lastEv.wasResolved /\ (Accepting(lastEv) \/ Rejecting(lastEv) \/ Deferring(lastEv)))
              => sess.resolved /\ cause = lastEv

\* C1 witness: replies 220, 250, 250, 550 gave {invalid, "550"}
C1_Witness ==
    /\ sess.kind = "mailbox"
    /\ sess.resolved
    /\ sess.result = Invalid("550")
    /\ sess.written = <<HELO \o "\r\n", MAILFROM \o "\r\n", RCPT \o "\r\n", QUIT \o "\r\n">>

\* C2: in every probe session, of either kind and under every order of
\* data, error, end and timer events, also when destroy() emits end from
\* inside done, the promise is resolved at most once and the socket
\* destroyed at most once, and a resolved session has been resolved exactly
\* once and its socket destroyed exactly once
C2_ExactlyOnce ==
    /\ sess.resolveCount <= 1
    /\ sess.destroyCount <= 1
    /\ sess.resolved <=> sess.resolveCount = 1
    /\ sess.resolved <=> sess.destroyCount = 1
    /\ sess.open <=> ~sess.resolved
    /\ lastEv.ev \in {"error", "end", "timer"} => sess.resolved

\* C2 witness: a session on a socket whose destroy() emits end, resolved by
\* its timer, has received a reply after it had resolved
C2_Witness ==
    /\ sess.emitsEnd
    /\ sess.resolved
    /\ cause.ev = "timer"
    /\ lastEv.ev = "data" /\ lastEv.wasResolved /\ IsReply(lastEv.line)
    /\ sess.resolveCount = 1 /\ sess.destroyCount = 1

\* the result of an indeterminate session that saw no reply code
Indeterminate(s) ==
    IF s.kind = "mailbox"
    THEN s.result = Unknown(NoCode)
    ELSE ~s.result.accepts /\ s.result.code = NoCode /\ s.result.error # ""

\* C3: a session resolved by its timer, by a socket error or by the end of
\* the connection resolves unknown, its socket is destroyed and no socket
\* stays open; the timer fires only on an unresolved session, and each of
\* the three events leaves the session resolved (the promise is resolved,
\* never rejected)
C3_TimeoutAndTransport ==
    /\ (sess.resolved /\ cause.ev \in {"timer", "error", "end"}) =>
            /\ Indeterminate(sess)
            /\ ~sess.open
            /\ sess.destroyCount = 1
            /\ sess.resolveCount = 1
    /\ sess.timer = "fired" => cause.ev = "timer"
    /\ lastEv.ev \in {"timer", "error", "end"} => sess.resolved /\ sess.resolveCount = 1

\* C3 witness: the server stalled in stage helo and the timer resolved the session
C3_Witness ==
    /\ sess.kind = "mailbox"
    /\ cause.ev = "timer" /\ cause.stage = "helo"
    /\ sess.result = Unknown(NoCode)
    /\ ~sess.open


(***************************************************************************)
(* Properties of the RateLimiter (SpecLimiter).                            *)
(***************************************************************************)
\* the timestamps of a bucket that are not older than t - WindowMs
InWindow(bucket, t) == SelectSeq(bucket, LAMBDA ts : ts >= t - WindowMs)

\* C6: allow(key) prunes the timestamps older than now - windowMs, returns
\* true and appends now exactly when the pruned bucket holds fewer than
\* limit timestamps, and otherwise returns false and adds nothing; a call on
\* a bucket that holds limit timestamps of the window fails, and a call made
\* when every timestamp has left the window succeeds
C6_AllowDecision ==
    lastAllow.called =>
        LET k     == lastAllow.key
            fresh == InWindow(lastAllow.before[k], lastAllow.at)
        IN  /\ lastAllow.ret <=> Len(fresh) < Limit
            /\ limiter.buckets[k] = IF lastAllow.ret THEN Append(fresh, lastAllow.at) ELSE fresh
            /\ Len(fresh) = Limit => ~lastAllow.ret
            /\ (\A i \in DOMAIN lastAllow.before[k] :
                    lastAllow.before[k][i] < lastAllow.at - WindowMs) => lastAllow.ret

\* C6 witness: the bucket was filled by calls at one instant, a further call
\* at that instant failed, and the bucket still holds the admitted calls
C6_Witness ==
    /\ lastAllow.called /\ ~lastAllow.ret
    /\ Len(limiter.buckets[lastAllow.key]) = Limit
    /\ \A i \in 1..Limit : limiter.buckets[lastAllow.key][i] = lastAllow.at
    /\ Len(admitted[lastAllow.key]) > Limit

\* C7: every bucket holds at most limit timestamps; right after an allow()
\* on its key a bucket holds no timestamp older than windowMs before that
\* call; no more than limit calls for one key are admitted within any window
\* of windowMs; an allow() on one key leaves the other buckets as they were
C7_WindowInvariant ==
    /\ \A k \in Keys : Len(limiter.buckets[k]) <= Limit
    /\ lastAllow.called =>
          \A i \in DOMAIN limiter.buckets[lastAllow.key] :
              limiter.buckets[lastAllow.key][i] >= lastAllow.at - WindowMs
    /\ \A k \in Keys : \A t \in Times :
          Cardinality({i \in DOMAIN admitted[k] :
                          t <= admitted[k][i] /\ admitted[k][i] <= t + WindowMs}) <= Limit
    /\ lastAllow.called =>
          \A k \in Keys \ {lastAllow.key} : limiter.buckets[k] = lastAllow.before[k]

\* C7 witness: more calls than limit were admitted for one key over time,
\* old timestamps were pruned, and the other key's bucket is full
C7_Witness ==
    /\ lastAllow.called /\ lastAllow.key = "a.com" /\ lastAllow.ret
    /\ Len(admitted["a.com"]) > Limit
    /\ Len(lastAllow.before["a.com"]) > Len(InWindow(lastAllow.before["a.com"], lastAllow.at))
    /\ Len(limiter.buckets["b.com"]) = Limit

(***************************************************************************)
(* Properties of the DnsCache (SpecCache).  A cache operation is a step    *)
(* that leaves the clock alone; lastOp' says which one it was.             *)
(***************************************************************************)
\* C9: a get never returns an entry past its expiry: a get of a key set at
\* time t with ttl, whose entry is still in the store, returns the data set
\* at any time before t + ttl and returns absent after t + ttl, removing the
\* entry from the store; a hit moves the entry to the most recent place and
\* leaves its expiresAt as set
C9_NoStaleEntry ==
    [][ (now' = now /\ lastOp'.op = "get") =>
            LET k == lastOp'.key
                r == lastOp'.ret
                p == lastSet[k]
            IN  /\ r.hit => now <= r.expiresAt
                /\ r.hit => p.live /\ r.data = p.data /\ r.expiresAt = p.expiresAt
                /\ (p.live /\ now < p.expiresAt) => r.hit
                /\ (p.live /\ now > p.expiresAt) => ~r.hit /\ ~has(store', k)
                /\ r.hit => /\ store'[Len(store')].key = k
                            /\ store'[Len(store')].expiresAt = p.expiresAt
                            /\ store'[Len(store')].data = p.data
                            /\ Len(store') = Len(store)
      ]_vars

\* C9 witness: a get found the entry of its key expired and removed it
C9_Witness ==
    /\ lastOp.op = "get" /\ lastOp.priorLive /\ ~lastOp.ret.hit
    /\ lastOp.evicted = {lastOp.key}
    /\ store # <<>>

\* C10: the store never holds more than maxEntries entries; a set puts its
\* key at the most recent place; a set on a key in the store overwrites it
\* without growing the store or evicting; a set that would exceed maxEntries
\* evicts exactly one entry, the least recently touched one, where a set and
\* a get hit are the touches; the Map order is the touch order
C10_BoundedLru ==
    [][ /\ Len(store') <= MaxEntries
        /\ keysOf(store') = touchOrder'
        /\ (now' = now /\ lastOp'.op = "set") =>
              LET k   == lastOp'.key
                  old == keySet(store)
                  new == keySet(store')
              IN  /\ store'[Len(store')].key = k
                  /\ store'[Len(store')].data = lastSet'[k].data
                  /\ store'[Len(store')].expiresAt = lastSet'[k].expiresAt
                  /\ IF k \in old THEN new = old /\ Len(store') = Len(store)
                     ELSE IF Len(store) < MaxEntries THEN new = old \cup {k}
                     ELSE /\ new = (old \ {Head(touchOrder)}) \cup {k}
                          /\ Cardinality(old \ new) = 1
      ]_vars

\* C10 witness: a set on a full store evicted the one key that was neither
\* set nor read last
C10_Witness ==
    /\ lastOp.op = "set" /\ ~lastOp.priorLive
    /\ Cardinality(lastOp.evicted) = 1
    /\ Len(store) = MaxEntries
    /\ lastOp.key \notin lastOp.evicted

(***************************************************************************)
(* probeSmtp calls sharing getLimiter(ProbeLimit).  SpecProbe: the calls   *)
(* of CallIds run concurrently within one window of the limiter.           *)
(* SpecProbeSeq: one call after the other, under an advancing clock.       *)
(***************************************************************************)
InitProbe ==
    /\ now = 0
    /\ IdleSess /\ IdleRun /\ IdleCache /\ IdleDns
    /\ limiter = getLimiter(ProbeLimit)
    /\ lastAllow = NoAllow
    /\ admitted = [k \in Keys |-> <<>>]
    /\ calls = [c \in CallIds |-> IdleCall]
    /\ netlog = [d \in ProbeDomains |-> <<>>]

NextProbe ==
    \/ \E c \in CallIds : ProbeStart(c) /\ UNCHANGED <<sessVars, cacheVars, dnsVars, runVars>>
    \/ \E c \in CallIds : ProbeLookupDone(c) /\ UNCHANGED <<sessVars, cacheVars, dnsVars, runVars>>
    \/ \E c \in CallIds : ProbeData(c) /\ UNCHANGED <<sessVars, cacheVars, dnsVars, runVars>>
    \/ \E c \in CallIds : ProbeError(c) /\ UNCHANGED <<sessVars, cacheVars, dnsVars, runVars>>
    \/ \E c \in CallIds : ProbeEnd(c) /\ UNCHANGED <<sessVars, cacheVars, dnsVars, runVars>>
    \/ \E c \in CallIds : ProbeTimer(c) /\ UNCHANGED <<sessVars, cacheVars, dnsVars, runVars>>
    \/ \E c \in CallIds : ProbeResume(c) /\ UNCHANGED <<sessVars, cacheVars, dnsVars, runVars>>
    \/ \E c \in CallIds : ProbeReturn(c) /\ UNCHANGED <<sessVars, cacheVars, dnsVars, runVars>>

SpecProbe == InitProbe /\ [][NextProbe]_vars

NextProbeSeq ==
    \/ ProbeStart(SeqCall) /\ UNCHANGED <<sessVars, cacheVars, dnsVars, runVars>>
    \/ ProbeLookupDone(SeqCall) /\ UNCHANGED <<sessVars, cacheVars, dnsVars, runVars>>
    \/ ProbeData(SeqCall) /\ UNCHANGED <<sessVars, cacheVars, dnsVars, runVars>>
    \/ ProbeError(SeqCall) /\ UNCHANGED <<sessVars, cacheVars, dnsVars, runVars>>
    \/ ProbeEnd(SeqCall) /\ UNCHANGED <<sessVars, cacheVars, dnsVars, runVars>>
    \/ ProbeTimer(SeqCall) /\ UNCHANGED <<sessVars, cacheVars, dnsVars, runVars>>
    \/ ProbeResume(SeqCall) /\ UNCHANGED <<sessVars, cacheVars, dnsVars, runVars>>
    \/ ProbeReturn(SeqCall) /\ UNCHANGED <<sessVars, cacheVars, dnsVars, runVars>>
    \/ ProbeTick /\ UNCHANGED <<sessVars, cacheVars, dnsVars, runVars>>

SpecProbeSeq == InitProbe /\ [][NextProbeSeq]_vars

(***************************************************************************)
(* Termination of the two probes.  One call slot runs probeSmtp or         *)
(* checkCatchAll, call after call, against servers that answer, stall, or  *)
(* send chunks without a reply code for ever.  Fairness: an armed timer    *)
(* fires, the time-boxed checkDNS settles, and a call whose awaited        *)
(* promise is resolved resumes.                                            *)
(***************************************************************************)
\* the chunks of a server, one of them without a reply code
LiveChunks == DetectChunks \cup { << <<"2", "5", "x", "0">> >> }

LiveData(c) == \E chunk \in LiveChunks : ProbeDeliver(c, onData(calls[c].s, chunk))

\* the slot runs probeSmtp (else checkCatchAll)
IsProbe == calls[SeqCall].s.kind = "mailbox"

InitLive ==
    /\ now = 0
    /\ IdleSess /\ IdleRun /\ IdleCache /\ IdleDns
    /\ limiter = getLimiter(ProbeLimit)
    /\ lastAllow = NoAllow
    /\ admitted = [k \in Keys |-> <<>>]
    /\ \E idle \in {IdleCall, IdleDetect} : calls = [c \in {SeqCall} |-> idle]
    /\ netlog = [d \in ProbeDomains |-> <<>>]

LiveOthers == UNCHANGED <<sessVars, cacheVars, dnsVars, runVars>>

LiveLookupDone ==
    \/ IsProbe /\ ProbeLookupDone(SeqCall) /\ LiveOthers
    \/ ~IsProbe /\ DetectLookupDone(SeqCall) /\ LiveOthers

LiveTimer == ProbeTimer(SeqCall) /\ LiveOthers

LiveResume ==
    \/ IsProbe /\ ProbeResume(SeqCall) /\ LiveOthers
    \/ ~IsProbe /\ DetectResume(SeqCall) /\ LiveOthers

NextLive ==
    \/ IsProbe /\ ProbeStart(SeqCall) /\ LiveOthers
    \/ ~IsProbe /\ DetectStart(SeqCall) /\ LiveOthers
    \/ LiveLookupDone
    \/ LiveData(SeqCall) /\ LiveOthers
    \/ ProbeError(SeqCall) /\ LiveOthers
    \/ ProbeEnd(SeqCall) /\ LiveOthers
    \/ LiveTimer
    \/ LiveResume
    \/ IsProbe /\ ProbeReturn(SeqCall) /\ LiveOthers
    \/ ~IsProbe /\ DetectReturn(SeqCall) /\ LiveOthers

SpecLive ==
    /\ InitLive /\ [][NextLive]_vars
    /\ WF_vars(LiveLookupDone) /\ WF_vars(LiveTimer) /\ WF_vars(LiveResume)

(***************************************************************************)
(* The two probes side by side: a connectAndProbe session and a            *)
(* smtpCatchAllProbe session for the same address are given the same       *)
(* events, one after the other.                                            *)
(***************************************************************************)
\* both sessions as created
NewPair(emitsEnd) ==
    [ pc      |-> "pair",
      mailbox |-> NewSession("mailbox", emitsEnd),
      probe   |-> NewSession("catchall", emitsEnd),
      last    |-> NoEvent ]

\* the same event is handed to both handlers
PairDeliver(ev, line, m2, c2) ==
    /\ run' = [run EXCEPT !.mailbox = m2, !.probe = c2,
                          !.last = [ev |-> ev, stage |-> run.mailbox.stage, line |-> line,
                                    wasResolved |-> run.mailbox.resolved]]
    /\ UNCHANGED <<pools, job>>

PairData ==
    \E chunk \in Chunks :
        PairDeliver("data", lastLineOf(chunk),
                    mailboxOnData(run.mailbox, chunk), catchAllOnData(run.probe, chunk))

PairError == PairDeliver("error", <<>>, onError(run.mailbox), onError(run.probe))

PairEnd == PairDeliver("end", <<>>, onEnd(run.mailbox), onEnd(run.probe))

\* the timers were armed together with the same timeoutMs; a timer that was
\* cleared does not fire
PairTimer ==
    /\ run.mailbox.timer = "armed" \/ run.probe.timer = "armed"
    /\ PairDeliver("timer", <<>>,
                   IF run.mailbox.timer = "armed" THEN onTimer(run.mailbox) ELSE run.mailbox,
                   IF run.probe.timer = "armed" THEN onTimer(run.probe) ELSE run.probe)

InitPair ==
    /\ now = 0
    /\ IdleSess /\ IdleLim /\ IdleCache /\ IdleProbe /\ IdleDns
    /\ \E emitsEnd \in BOOLEAN : run = NewPair(emitsEnd)
    /\ pools = <<>>
    /\ job = <<>>

PairOthers == UNCHANGED <<now, sessVars, limVars, cacheVars, probeVars, dnsVars>>

NextPair ==
    \/ PairData /\ PairOthers
    \/ PairError /\ PairOthers
    \/ PairEnd /\ PairOthers
    \/ PairTimer /\ PairOthers

SpecPair == InitPair /\ [][NextPair]_vars

(***************************************************************************)
(* Properties of probeSmtp (SpecProbe, SpecProbeSeq).                      *)
(***************************************************************************)
\* C4: a call the limiter denies returns {unknown, rate_limited} having
\* issued no DNS lookup and opened no SMTP connection; it returns a result;
\* rate_limited is returned by denied calls only, and a call is denied only
\* when the bucket of its domain is full
C4_DeniedNoIo ==
    \A c \in CallIds :
        LET k == calls[c]
        IN  /\ (k.pc # "idle" /\ ~k.admitted) =>
                  /\ k.pc = "done"
                  /\ k.result = RateLimited
                  /\ k.queries = {}
                  /\ k.opened = 0
                  /\ k.contacted = <<>>
                  /\ Len(limiter.buckets[k.domain]) >= ProbeLimit
            /\ (k.pc = "done" /\ k.admitted) => k.result # RateLimited

\* C4 witness: a call was denied while the calls admitted before it are
\* still looking up or probing
C4_Witness ==
    \E c \in CallIds :
        /\ calls[c].pc = "done" /\ calls[c].result = RateLimited
        /\ calls[c].queries = {} /\ calls[c].opened = 0
        /\ \E c2 \in CallIds \ {c} : calls[c2].pc = "probing" /\ calls[c2].opened = 2

\* C5: a call contacts the MX hosts one after another in list order, a host
\* only after the session of the host before it has resolved unknown, so it
\* never has more than one connection open; it returns the outcome of the
\* first host whose session is not unknown without contacting a later host,
\* and returns unknown with no code when every host is unknown or there is
\* no MX host
C5_SequentialFirstDefinitive ==
    \A c \in CallIds :
        LET k == calls[c]
            n == Len(k.contacted)
        IN  /\ k.opened - k.closed <= 1
            /\ k.opened = n
            /\ n <= Len(k.mxHosts)
            /\ \A j \in 1..n : k.contacted[j].host = k.mxHosts[j]
            /\ \A j \in 1..(n - 1) : k.contacted[j].outcome.status = "unknown"
            /\ (k.pc = "done" /\ k.admitted) =>
                  /\ k.opened = k.closed
                  /\ IF n > 0 /\ k.contacted[n].outcome.status \in {"valid", "invalid"}
                     THEN k.result = k.contacted[n].outcome
                     ELSE n = Len(k.mxHosts) /\ k.result = Unknown(NoCode)

\* C5 witness: the first host deferred, the second rejected the address,
\* and the call returned the rejection
C5_Witness ==
    \E c \in CallIds :
        /\ calls[c].pc = "done"
        /\ Len(calls[c].mxHosts) = 2
        /\ Len(calls[c].contacted) = 2
        /\ calls[c].contacted[1].outcome = Unknown("450")
        /\ calls[c].result = Invalid("550")

\* C8: across the probeSmtp calls sharing one limiter, the connection
\* attempts made for one domain within any window of windowMs never exceed
\* the limit (netlog holds the attempts of the window that ends now)
C8_ConnectionsBounded ==
    \A d \in ProbeDomains : Len(Recent(netlog[d], now)) <= ProbeLimit

(***************************************************************************)
(* Properties of checkDNS (SpecDns, SpecDnsShared).                        *)
(***************************************************************************)
\* the lookup of the call ended in a resolver error or a timeout
Failed(k, lk) == k.how[lk] \in {"error", "timeout"}

\* the records the lookup of the call obtained: none when it was not issued
\* or failed
RecordsOf(k, lk) ==
    IF k.p[lk].state = "fulfilled" /\ k.p[lk].value.ok THEN k.p[lk].value.records ELSE <<>>

\* C11: checkDNS never rejects: a lookup that errors or times out settles
\* with a failure envelope; in the DnsResult a failed MX lookup gives mx
\* false and no mxHosts, a failed root TXT lookup spf false, a failed _dmarc
\* TXT lookup dmarc false, a failed A or AAAA lookup adds nothing to
\* domainExists; and every signal is what its own lookup obtained, whatever
\* became of the other lookups
C11_FailureIsolated ==
    \A c \in DOMAIN dns :
        LET k == dns[c]
            r == k.result
        IN  /\ k.pc # "rejected"
            /\ \A lk \in LookupSet :
                  Failed(k, lk) => k.p[lk].state = "fulfilled" /\ ~k.p[lk].value.ok
            /\ k.pc = "done" =>
                  /\ Failed(k, "mx") => r.mx = "false" /\ ~r.hasMxHosts /\ r.mxHosts = <<>>
                  /\ Failed(k, "spfTxt") => r.spf = "false"
                  /\ Failed(k, "dmarcTxt") => r.dmarc = "false"
                  /\ k.opts.mx =>
                        /\ r.mx = Tri(Len(RecordsOf(k, "mx")) > 0)
                        /\ Len(r.mxHosts) = Len(RecordsOf(k, "mx"))
                        /\ \A i \in 1..Len(r.mxHosts) : r.mxHosts[i] = RecordsOf(k, "mx")[i].exchange
                  /\ k.opts.spf => r.spf = Tri(RecordsOf(k, "spfTxt") = SpfTxt)
                  /\ k.opts.dmarc => r.dmarc = Tri(RecordsOf(k, "dmarcTxt") = DmarcTxt)
                  /\ r.domainExists <=>
                        \/ Len(RecordsOf(k, "mx")) > 0
                        \/ RecordsOf(k, "spfTxt") \in {SpfTxt, DmarcTxt}
                        \/ Len(RecordsOf(k, "a")) > 0
                        \/ Len(RecordsOf(k, "aaaa")) > 0

\* C11 witness: the MX lookup errored and the AAAA lookup timed out, and
\* the call still reports SPF, DMARC and an existing domain
C11_Witness ==
    \E c \in DOMAIN dns :
        /\ dns[c].pc = "done"
        /\ dns[c].how["mx"] = "error" /\ dns[c].how["aaaa"] = "timeout"
        /\ dns[c].result.mx = "false"
        /\ dns[c].result.spf = "true" /\ dns[c].result.dmarc = "true"
        /\ dns[c].result.domainExists

\* C12: a checkDNS call that needs a key whose last completed lookup is
\* still cached (not expired, not evicted) sends no query for the key and
\* obtains the envelope that lookup completed with, be it records, an error
\* or a timeout; a call is answered from the cache only in that case; and
\* the cache holds exactly the envelopes of the completed lookups
C12_CachedEnvelopeReused ==
    [][ /\ \A key \in DnsKeys :
            /\ completed'[key].live <=> has(store', key)
            /\ has(store', key) =>
                  /\ entryOf(store', key).data = completed'[key].env
                  /\ entryOf(store', key).expiresAt = completed'[key].expiresAt
        /\ \A c \in DOMAIN dns :
            (dns[c].pc = "idle" /\ dns'[c].pc = "waiting") =>
                \A lk \in LookupSet :
                    LET key == keyOf(lk, DnsDomain)
                        h   == completed[key]
                    IN  issued(dns'[c].opts, lk) =>
                          IF h.live /\ now <= h.expiresAt
                          THEN /\ dns'[c].p[lk] = Fulfilled(h.env)
                               /\ queries'[key] = queries[key]
                          ELSE /\ dns'[c].p[lk] = PendingP
                               /\ queries'[key] = queries[key] + 1
      ]_vars

\* C12 witness: a call is answered the cached failure of the MX lookup
\* while it has to query A again
C12_Witness ==
    \E c \in DOMAIN dns :
        /\ dns[c].pc = "waiting"
        /\ dns[c].how["mx"] = "cache"
        /\ dns[c].p["mx"].state = "fulfilled" /\ ~dns[c].p["mx"].value.ok
        /\ dns[c].p["a"].state = "pending"
        /\ queries[keyOf("mx", DnsDomain)] = 0
        /\ queries[keyOf("a", DnsDomain)] = 1

\* the lookup of the call found at least one record
Present(k, lk) == Len(RecordsOf(k, lk)) > 0

\* C13: checkDNS returns domainExists = true exactly when its MX lookup,
\* its root TXT lookup, its A lookup or its AAAA lookup found a record, and
\* gives mxHosts only when the MX lookup found a record
C13_DomainExistsIff ==
    \A c \in DOMAIN dns :
        dns[c].pc = "done" =>
            /\ dns[c].result.domainExists <=>
                    \/ Present(dns[c], "mx")
                    \/ Present(dns[c], "spfTxt")
                    \/ Present(dns[c], "a")
                    \/ Present(dns[c], "aaaa")
            /\ (dns[c].result.hasMxHosts \/ dns[c].result.mxHosts # <<>>) => Present(dns[c], "mx")

(***************************************************************************)
(* Properties of checkCatchAll (SpecCatchAll).                             *)
(***************************************************************************)
\* the session of a host ended without a decision: a transport error, a
\* timeout, the end of the connection, or a reply that decides nothing
Inconclusive(o) == o.error # "" /\ o.error # "pending"

Definitive(o) == o.error = ""

\* C14: a checkCatchAll call with no MX host returns {isCatchAll false,
\* confidence low, method unknown} without contacting anyone; otherwise it
\* generates one random address, once, and probes the MX hosts in list
\* order, one connection at a time, each with that address; it goes on to
\* the next host exactly when a host's session ended inconclusive (transport
\* error, timeout or another indecisive end); the first host with a
\* definitive accept or reject ends the call with confidence high and
\* isCatchAll true exactly for an accept; when every host was inconclusive
\* it returns isCatchAll false with confidence low
C14_CatchAllDetection ==
    \A c \in DOMAIN calls :
        LET k == calls[c]
            n == Len(k.contacted)
        IN  /\ k.generated <= 1
            /\ k.opened = n
            /\ k.opened - k.closed <= 1
            /\ n <= Len(k.mxHosts)
            /\ n > 0 => /\ k.generated = 1
                        /\ \E r \in RandomParts : k.testEmail = generateRandomEmail(r, k.domain)
            /\ \A j \in 1..n : k.contacted[j].host = k.mxHosts[j] /\ k.contacted[j].email = k.testEmail
            /\ \A j \in 1..(n - 1) : Inconclusive(k.contacted[j].outcome)
            /\ \A j \in 1..n :
                  k.contacted[j].outcome \in {TimeoutResult("catchall"), ErrorResult("catchall"),
                                              EndResult("catchall")}
                      => Inconclusive(k.contacted[j].outcome)
            /\ k.pc = "probing" =>
                  \A i \in 1..Len(k.s.written) :
                      k.s.written[i] \in {HELO \o "\r\n", MAILFROM \o "\r\n",
                                          RcptTo(k.testEmail) \o "\r\n", QUIT \o "\r\n"}
            /\ k.pc = "done" =>
                  /\ k.opened = k.closed
                  /\ IF Len(k.mxHosts) = 0
                     THEN /\ n = 0 /\ k.generated = 0
                          /\ ~k.result.isCatchAll
                          /\ k.result.confidence = "low" /\ k.result.method = "unknown"
                     ELSE IF Definitive(k.contacted[n].outcome)
                     THEN /\ k.result.confidence = "high" /\ k.result.method = "smtp_probe"
                          /\ k.result.isCatchAll <=> k.contacted[n].outcome.accepts
                     ELSE /\ n = Len(k.mxHosts)
                          /\ Inconclusive(k.contacted[n].outcome)
                          /\ ~k.result.isCatchAll
                          /\ k.result.confidence = "low"

\* C14 witness: the first host timed out, the second accepted the random
\* address, and the call reports a catch-all with confidence high
C14_Witness ==
    \E c \in DOMAIN calls :
        /\ calls[c].pc = "done"
        /\ Len(calls[c].contacted) = 2
        /\ calls[c].contacted[1].outcome = TimeoutResult("catchall")
        /\ calls[c].contacted[2].outcome = CatchAll(TRUE, "250", "")
        /\ calls[c].result = AcceptedBy("mx2")

(***************************************************************************)
(* Properties of the validation call (SpecVerify).                         *)
(***************************************************************************)
\* the verdict and the confidence of a result are well formed
WellFormed(result) == result.verdict \in Verdicts /\ result.confidence \in 0..100

\* the input, trimmed, has no @, more than one @, or nothing before or
\* after its @
Malformed(email) ==
    LET t   == trim(email)
        ats == {i \in 1..Len(t) : t[i] = "@"}
    IN  \/ Cardinality(ats) # 1
        \/ t[1] = "@"
        \/ t[Len(t)] = "@"

\* the input does not normalise, or its normalised form fails the syntax
\* check of the mode
FailsSyntax(email, mode) ==
    LET n == normalizeEmail(email)
    IN  ~n.ok \/ ~validateSyntax(n.normalizedEmail, mode).ok

\* the connections the call's SMTP stage has opened so far
SmtpOpened == run.io.smtpOpened + (IF run.pc = "smtp" THEN calls[SeqCall].opened ELSE 0)

\* the connections the call's catch-all stage has opened so far
CatchAllOpened == run.io.catchAllOpened + (IF run.pc = "catchAll" THEN calls[SeqCall].opened ELSE 0)

\* C15: a call whose input has no @, several @, an empty local or domain
\* part, or fails the syntax check, returns at once with verdict invalid,
\* confidence 0 and one reason; it issues no DNS lookup, asks the limiter
\* for no admission and opens no SMTP connection
C15_GateStopsInvalid ==
    (run.pc # "idle"
        /\ (Malformed(run.email) \/ FailsSyntax(run.email, resolveOptions(run.options).mode)))
    => /\ run.pc = "done"
       /\ run.result.verdict = "invalid"
       /\ run.result.confidence = 0
       /\ Len(run.result.reasons) = 1
       /\ run.result.reasons[1] # ""
       /\ run.io = NoIo
       /\ SmtpOpened = 0 /\ CatchAllOpened = 0
       /\ calls[SeqCall] = IdleCall

\* an input with two @ was validated with the SMTP and catch-all stages
\* enabled, after an earlier call had passed the gate and probed
C15_Witness ==
    /\ run.pc = "done"
    /\ Malformed(run.email)
    /\ Cardinality({i \in 1..Len(run.email) : run.email[i] = "@"}) = 2
    /\ resolveOptions(run.options).smtpOpts.enabled
    /\ resolveOptions(run.options).catchAllEnabled
    /\ Len(limiter.buckets["a.com"]) = 1
    /\ run.result.verdict = "invalid"

\* the results of the downstream stages of the call that has returned
DnsFailed == run.dnsResult.mx = "false" /\ run.dnsResult.spf = "false" /\ run.dnsResult.dmarc = "false"

\* C16: a call that is past the gate never rejects, whatever fails after
\* the gate (DNS lookups, the limiter's refusal, SMTP connections, the
\* catch-all probe); it does not return but through the score step, and it
\* returns a confidence in 0..100 that is the clamped score and a verdict, one
\* of the four, computed from that confidence
C16_AlwaysResolves ==
    /\ run.pc # "rejected"
    /\ (run.pc = "done" /\ run.passedGate) =>
          /\ WellFormed(run.result)
          /\ run.result.confidence = max(0, min(100, round(run.score)))
          /\ run.result.verdict = computeVerdict(run.result.confidence, thresholdsOf(run.options))
          /\ run.runOptions.collectTrace => run.trace[Len(run.trace)].step = "score"

\* every lookup of the call's checkDNS failed, the flagged address took the
\* score below zero, the probe was asked for and connected to no server, and
\* the call returned confidence 0
C16_Witness ==
    /\ run.pc = "done"
    /\ run.passedGate
    /\ DnsFailed
    /\ ~run.dnsResult.domainExists
    /\ run.score < 0
    /\ run.checks.smtp.enabled
    /\ run.io.allowCalls = 1
    /\ run.io.smtpOpened = 0
    /\ run.result.confidence = 0
    /\ run.result.verdict = "invalid"

\* the steps of the pipeline in their order
TraceOrder ==
    << "normalize", "syntax", "dns", "provider", "canonical", "roleEmail", "patterns", "typo",
       "disposable", "smtp", "catchAll", "score" >>

\* the place of a step in the order, 0 for a step that is not one of them
placeOf(step) ==
    IF \E i \in 1..Len(TraceOrder) : TraceOrder[i] = step
    THEN CHOOSE i \in 1..Len(TraceOrder) : TraceOrder[i] = step
    ELSE 0

\* the trace has the step
Traced(step) == \E i \in 1..Len(run.trace) : run.trace[i].step = step

\* the step the trace ends with
LastStep == run.trace[Len(run.trace)].step

\* C17: the trace of debugVerifyEmail is a subsequence of normalize, syntax,
\* dns, provider, canonical, roleEmail, patterns, typo, disposable, smtp,
\* catchAll, score; it ends at normalize or syntax when the gate fails and at
\* score otherwise; the limiter is asked and the SMTP probe starts only after
\* checkDNS has completed, and the catch-all probe starts only after the
\* SMTP stage has completed
C17_TraceOrdered ==
    run.runOptions.collectTrace =>
        /\ \A i \in 1..Len(run.trace) : placeOf(run.trace[i].step) > 0
        /\ \A i \in 1..Len(run.trace) : \A j \in 1..Len(run.trace) :
              i < j => placeOf(run.trace[i].step) < placeOf(run.trace[j].step)
        /\ (run.pc = "done" /\ ~run.passedGate) =>
              /\ LastStep \in {"normalize", "syntax"}
              /\ LastStep = (IF normalizeEmail(run.email).ok THEN "syntax" ELSE "normalize")
        /\ (run.pc = "done" /\ run.passedGate) => LastStep = "score"
        /\ (run.io.allowCalls > 0 \/ calls[SeqCall] # IdleCall) => Traced("dns")
        /\ run.pc = "smtp" => ~Traced("smtp") /\ ~Traced("catchAll")
        /\ (run.pc = "catchAll" \/ run.io.catchAllQueries # {} \/ run.io.catchAllOpened > 0) =>
              (resolveOptions(run.options).smtpOpts.enabled => Traced("smtp"))

\* a flagged address went through debugVerifyEmail with every stage on: the
\* trace has the twelve steps
C17_Witness ==
    /\ run.pc = "done"
    /\ run.entry = "debugVerifyEmail"
    /\ Len(run.trace) = Len(TraceOrder)
    /\ \A i \in 1..Len(TraceOrder) : run.trace[i].step = TraceOrder[i]
    /\ run.io.smtpOpened > 0
    /\ run.io.catchAllOpened > 0

\* the weight was subtracted from the score of the call
Applied(w) == \E i \in 1..Len(run.applied) : run.applied[i] = w

\* the checks the call reports: those of its result once it has returned
ReportedChecks == IF run.pc = "done" THEN run.result.checks ELSE run.checks

\* C18: a disabled stage costs no network use and no score.  With
\* smtp.enabled false the limiter is not asked, the SMTP stage opens no
\* connection and no SMTP weight is applied; with catchAll.enabled false the
\* catch-all stage opens no connection and its weight is not applied; with
\* dns.mx, dns.spf or dns.dmarc false the penalty of that signal is not
\* applied; with typoSuggestions or disposable disabled the check reports
\* what it was initialised with and its weight is not applied
C18_DisabledStageInert ==
    LET ro == resolveOptions(run.options)
    IN  run.pc # "idle" =>
        /\ ~ro.smtpOpts.enabled =>
              /\ run.io.allowCalls = 0
              /\ SmtpOpened = 0 /\ run.io.smtpQueries = {}
              /\ run.pc # "smtp"
              /\ ~Applied("smtpInvalid") /\ ~Applied("smtpUnknown")
              /\ ReportedChecks.smtp = [enabled |-> FALSE, status |-> "unknown", code |-> NoCode]
        /\ ~ro.catchAllEnabled =>
              /\ CatchAllOpened = 0 /\ run.io.catchAllQueries = {}
              /\ run.pc # "catchAll"
              /\ ~Applied("catchAll")
              /\ ReportedChecks.catchAll = Null
        /\ ~ro.dnsOpts.mx => ~Applied("noMx")
        /\ ~ro.dnsOpts.spf => ~Applied("noSpf")
        /\ ~ro.dnsOpts.dmarc => ~Applied("noDmarc")
        /\ ~ro.typoSuggestions =>
              /\ ~Applied("typo")
              /\ ReportedChecks.typo.suggestedEmail = ""
              /\ run.passedGate => ReportedChecks.typo = createInitialChecks(ro.mode, FALSE).typo
        /\ ~ro.disposableEnabled =>
              /\ ~Applied("disposable")
              /\ ReportedChecks.disposable = createInitialChecks(ro.mode, FALSE).disposable

\* a flagged address was validated with every optional stage disabled: only
\* the role, pattern and plus-addressing weights were applied
C18_Witness ==
    /\ run.pc = "done"
    /\ run.options = AllOff
    /\ run.passedGate
    /\ run.applied = <<"roleEmail", "patternLow", "patternHigh", "patternMedium", "plusAddressing">>
    /\ run.io.dnsQueries # {}
    /\ run.result.confidence = 57
    /\ run.result.verdict = "unknown"

\* the call has returned and every signal but those of DNS and SMTP passed:
\* no role address, no pattern, no plus tag, no typo, not disposable, no
\* catch-all domain
OtherSignalsPass ==
    /\ run.pc = "done" /\ run.passedGate
    /\ ~run.checks.roleEmail.isRole
    /\ ~run.checks.patterns.detected
    /\ ~Applied("plusAddressing")
    /\ run.checks.typo.suggestedEmail = ""
    /\ ~run.checks.disposable.ok
    /\ run.checks.catchAll # Null => ~run.checks.catchAll.isCatchAll

\* the call ran under the default weights and thresholds
DefaultScoring ==
    /\ run.weights = DEFAULT_WEIGHTS
    /\ thresholdsOf(run.options) = DEFAULT_THRESHOLDS

\* C20: with every other signal passing, a domain with no MX record (SPF
\* and DMARC found) validated with SMTP disabled has its score reduced by
\* the noMx weight and by nothing else; a domain with MX, SPF and DMARC
\* whose SMTP probe returns invalid has its score reduced by the smtpInvalid
\* weight, and under the default weights and thresholds its verdict is invalid
C20_EndToEndScoring ==
    OtherSignalsPass =>
        /\ ( /\ ~run.checks.smtp.enabled
             /\ run.dnsResult.mx = "false"
             /\ run.dnsResult.spf # "false" /\ run.dnsResult.dmarc # "false" ) =>
              /\ run.applied = <<"noMx">>
              /\ run.score = pts(100) - run.weights.noMx
              /\ run.result.confidence = clampScore(pts(100) - run.weights.noMx)
              /\ DefaultScoring => run.result.confidence = 50 /\ run.result.verdict = "unknown"
        /\ ( /\ run.checks.smtp.enabled /\ run.checks.smtp.status = "invalid"
             /\ run.dnsResult.mx = "true"
             /\ run.dnsResult.spf = "true" /\ run.dnsResult.dmarc = "true" ) =>
              /\ run.applied = <<"smtpInvalid">>
              /\ run.score = pts(100) - run.weights.smtpInvalid
              /\ DefaultScoring => run.result.confidence = 20 /\ run.result.verdict = "invalid"

\* a clean address of a domain with MX, SPF and DMARC was probed, the server
\* rejected the recipient, and the call returned invalid with confidence 20
C20_Witness ==
    /\ OtherSignalsPass
    /\ DefaultScoring
    /\ run.checks.smtp.enabled /\ run.checks.smtp.status = "invalid"
    /\ run.io.smtpOpened > 0
    /\ run.dnsResult.mx = "true" /\ run.dnsResult.spf = "true" /\ run.dnsResult.dmarc = "true"
    /\ run.result.confidence = 20
    /\ run.result.verdict = "invalid"

\* a clean address of a domain with SPF and DMARC but no MX record was
\* validated with SMTP disabled and returned confidence 50
NoMxOnlyReached ==
    /\ OtherSignalsPass
    /\ DefaultScoring
    /\ ~run.checks.smtp.enabled
    /\ run.dnsResult.mx = "false" /\ run.dnsResult.spf = "true" /\ run.dnsResult.dmarc = "true"
    /\ run.result.confidence = 50

(***************************************************************************)
(* Properties of the pools (SpecPools).                                    *)
(***************************************************************************)
\* calls use the same DnsCache exactly when their cache configurations are
\* equal, and calls that probe use the same RateLimiter exactly when their
\* limits are equal
SharedIffSameConfig ==
    \A i \in 1..Len(pools.uses) : \A j \in 1..Len(pools.uses) :
        LET u == pools.uses[i]
            v == pools.uses[j]
        IN  /\ u.cache = v.cache <=> u.config = v.config
            /\ (u.smtp /\ v.smtp) => (u.limiter = v.limiter <=> u.limit = v.limit)
            /\ u.smtp => u.limiter # v.cache

\* every instance constructed is in a pool, under one key
OncePerKey ==
    /\ pools.made = Cardinality(DOMAIN pools.dnsCachePool) + Cardinality(DOMAIN pools.limiterPool)
    /\ \A k1 \in DOMAIN pools.dnsCachePool : \A k2 \in DOMAIN pools.dnsCachePool :
          pools.dnsCachePool[k1].id = pools.dnsCachePool[k2].id => k1 = k2
    /\ \A k1 \in DOMAIN pools.limiterPool : \A k2 \in DOMAIN pools.limiterPool :
          pools.limiterPool[k1].id = pools.limiterPool[k2].id => k1 = k2

\* a step keeps every entry of the two pools as it is
EntriesKept ==
    /\ \A k \in DOMAIN pools.dnsCachePool :
          k \in DOMAIN pools'.dnsCachePool /\ pools'.dnsCachePool[k] = pools.dnsCachePool[k]
    /\ \A k \in DOMAIN pools.limiterPool :
          k \in DOMAIN pools'.limiterPool /\ pools'.limiterPool[k] = pools.limiterPool[k]

\* C19: over any sequence of validation calls two calls use the same DnsCache
\* if and only if their (dnsTtlMs, maxEntries) are the same, and the same
\* RateLimiter if and only if their maxConnectionsPerDomainPerMinute is the
\* same; an instance is constructed at most once per key, and an entry of a
\* pool is never replaced or removed
C19_PooledByConfiguration ==
    /\ [](SharedIffSameConfig /\ OncePerKey)
    /\ [][EntriesKept]_vars

\* two calls with cache configuration (1, 11) and limit 1 shared one
\* DnsCache and one RateLimiter; a later call with (11, 1) and the default
\* limit got a DnsCache and a RateLimiter of its own
C19_Witness ==
    \E i, j, k \in 1..Len(pools.uses) :
        LET u == pools.uses[i]
            v == pools.uses[j]
            w == pools.uses[k]
        IN  /\ i < j /\ j < k
            /\ u.config = [ttlMs |-> 1, maxEntries |-> 11] /\ v.config = u.config
            /\ w.config = [ttlMs |-> 11, maxEntries |-> 1]
            /\ u.smtp /\ v.smtp /\ w.smtp
            /\ u.limit = 1 /\ v.limit = 1 /\ w.limit = 10
            /\ u.cache = v.cache /\ u.limiter = v.limiter
            /\ w.cache # u.cache /\ w.limiter # u.limiter

(***************************************************************************)
(* Properties of the scoring reducer.                                      *)
(***************************************************************************)
\* the verdict of a score under three thresholds, case by case
Tier(score, valid, risky, unknown) ==
    CASE score >= valid -> "valid"
      [] score < valid /\ score >= risky -> "risky"
      [] score < valid /\ score < risky /\ score >= unknown -> "unknown"
      [] OTHER -> "invalid"

\* the thresholds of the call, each one the option's or else its default
CallThresholds ==
    [ valid   |-> IF "scoring.thresholds.valid" \in DOMAIN run.options
                  THEN run.options["scoring.thresholds.valid"] ELSE 85,
      risky   |-> IF "scoring.thresholds.risky" \in DOMAIN run.options
                  THEN run.options["scoring.thresholds.risky"] ELSE 60,
      unknown |-> IF "scoring.thresholds.unknown" \in DOMAIN run.options
                  THEN run.options["scoring.thresholds.unknown"] ELSE 30 ]

\* C21 as stated: the verdict of every validation result, those of the calls
\* the gate stopped included, is computeVerdict of the result's confidence
\* under the thresholds of the call
C21_VerdictOfEveryResult ==
    run.pc = "done" =>
        run.result.verdict = computeVerdict(run.result.confidence, CallThresholds)

\* C21, amended: computeVerdict gives valid from the valid threshold up,
\* else risky from the risky threshold up, else unknown from the unknown
\* threshold up, else invalid, under 85 / 60 / 30 when no thresholds are
\* given; the verdict of the result of every call that passed the gate is
\* computeVerdict of the clamped confidence under the thresholds of the call,
\* each missing one falling back to its default; a call the gate stopped
\* returns invalid whatever the thresholds
C21_VerdictOfPassedResult ==
    /\ \A score \in 0..100 :
          /\ computeVerdict(score, Null) = Tier(score, 85, 60, 30)
          /\ computeVerdict(score, CallThresholds)
                = Tier(score, CallThresholds.valid, CallThresholds.risky, CallThresholds.unknown)
    /\ (run.pc = "done" /\ run.passedGate) =>
          /\ run.result.confidence = max(0, min(100, round(run.score)))
          /\ run.result.verdict = computeVerdict(run.result.confidence, CallThresholds)
    /\ (run.pc = "done" /\ ~run.passedGate) => run.result.verdict = "invalid"

\* a call with only the valid threshold given, as 50, lost the noMx weight
\* and returned valid at confidence 50
C21_Witness ==
    /\ run.pc = "done" /\ run.passedGate
    /\ CallThresholds = [valid |-> 50, risky |-> 60, unknown |-> 30]
    /\ run.applied = <<"noMx">>
    /\ run.result.confidence = 50
    /\ run.result.verdict = "valid"

\* the order of the verdicts: invalid < unknown < risky < valid
TierRank(verdict) ==
    CASE verdict = "invalid" -> 0
      [] verdict = "unknown" -> 1
      [] verdict = "risky"   -> 2
      [] verdict = "valid"   -> 3

\* C22: computeVerdict is monotonic: under any thresholds, in descending
\* order or not, the verdict of the higher of two scores is never lower in
\* the order invalid < unknown < risky < valid
C22_VerdictMonotonic ==
    (run.pc = "computed" /\ run.kind = "verdict") =>
        /\ run.v1 \in Verdicts /\ run.v2 \in Verdicts
        /\ TierRank(run.v1) <= TierRank(run.v2)

\* thresholds out of order (risky below unknown below valid): the lower
\* score came out risky and the higher one valid
C22_Witness ==
    /\ run.pc = "computed" /\ run.kind = "verdict"
    /\ run.thresholds # Null
    /\ run.thresholds.risky < run.thresholds.unknown
    /\ run.thresholds.unknown < run.thresholds.valid
    /\ run.s1 < run.thresholds.unknown /\ run.s1 >= run.thresholds.risky
    /\ run.s2 >= run.thresholds.valid
    /\ run.v1 = "risky" /\ run.v2 = "valid"

\* C23: clampScore returns a value in 0..100, returns an integer that is
\* already in 0..100 unchanged, and is idempotent
C23_ClampScore ==
    (run.pc = "computed" /\ run.kind = "clamp") =>
        /\ run.c \in 0..100
        /\ \A n \in 0..100 : run.x = pts(n) => run.c = n
        /\ run.cc = run.c

\* a score of 99.5 was clamped to 100, and 100 stayed 100
C23_Witness ==
    /\ run.pc = "computed" /\ run.kind = "clamp"
    /\ run.x = pts(100) - 1
    /\ run.c = 100
    /\ run.cc = 100

(***************************************************************************)
(* Properties of the batch and stream calls (SpecBatch, SpecStream).       *)
(***************************************************************************)
\* C24: verifyEmailBatch never has more than `concurrency` validations in
\* flight: a chunk has at most `concurrency` emails, and while the call goes
\* on every validation in flight is of the current chunk, so a chunk starts
\* only when every validation of the chunk before it has settled
C24_BatchBounded ==
    job.api = "batch" =>
        /\ Cardinality(InFlight(job)) <= job.concurrency
        /\ Len(job.batch) <= job.concurrency
        /\ \A id \in InFlight(job) : job.startedIn[id] = job.chunks
        /\ job.pc = "loop" => InFlight(job) = {}

\* five emails under concurrency 2: the third chunk is in flight after the
\* first two have settled, one of them with a rejected validation
C24_Witness ==
    /\ job.api = "batch" /\ job.pc = "join"
    /\ job.total = 5 /\ job.concurrency = 2
    /\ job.chunks = 3
    /\ InFlight(job) = {5}
    /\ Len(job.results) = 4
    /\ \E i \in 1..4 : job.results[i].kind = "error"

\* C25: verifyEmailStream never has more than `concurrency` validations in
\* flight, also while the buffered emails are started after the iterable is
\* exhausted
C25_StreamBounded ==
    job.api = "stream" => Cardinality(InFlight(job)) <= job.concurrency

(***************************************************************************)
(* Properties of the conversation of a probe session (SpecSession).        *)
(***************************************************************************)
\* C26: once a probe session has resolved, every further socket event is
\* ignored: an event delivered to a resolved session changes neither its
\* stage nor its result and writes no command to the socket
C26_ResolvedIgnoresEvents ==
    [][sess.resolved =>
          /\ sess'.stage = sess.stage
          /\ sess'.result = sess.result
          /\ sess'.written = sess.written]_vars

\* the whole conversation of a probe for the address email, as written
Conversation(email) ==
    <<HELO \o "\r\n", MAILFROM \o "\r\n", RcptTo(email) \o "\r\n", QUIT \o "\r\n">>

\* the place of a stage in greet, helo, mailfrom, rcpt, done
StageRank(stage) ==
    CASE stage = "greet" -> 1
      [] stage = "helo" -> 2
      [] stage = "mailfrom" -> 3
      [] stage = "rcpt" -> 4
      [] stage = "done" -> 5

\* the event that may write the n-th command of the conversation
MayWrite(n, e) ==
    CASE n = 1 -> e.ev = "data" /\ e.stage = "greet" /\ IsReply(e.line)
      [] n = 2 -> e.ev = "data" /\ e.stage = "helo" /\ Begins(e.line, "2", "5", "0")
      [] n = 3 -> e.ev = "data" /\ e.stage = "mailfrom" /\ Begins(e.line, "2", "5", "0")
      [] n = 4 -> InRcpt(e)
      [] OTHER -> FALSE

\* C27: in every probe session the commands written are a prefix of HELO
\* localhost, MAIL FROM:<probe@localhost>, RCPT TO:<address>, QUIT, each
\* written at most once and in that order; the stage only moves forward
\* along greet, helo, mailfrom, rcpt, done; one event writes at most one
\* command: HELO after a reply in stage greet, MAIL FROM only after a 250
\* reply in stage helo, RCPT TO only after a 250 reply in stage mailfrom and
\* QUIT only after a reply received in stage rcpt
C27_CommandOrder ==
    /\ [](/\ Len(sess.written) <= 4
          /\ sess.written = SubSeq(Conversation(sess.email), 1, Len(sess.written)))
    /\ [][StageRank(sess'.stage) >= StageRank(sess.stage)]_vars
    /\ [][Len(sess'.written) # Len(sess.written) =>
              /\ Len(sess'.written) = Len(sess.written) + 1
              /\ MayWrite(Len(sess'.written), lastEv')]_vars

\* C27 witness: a catch-all probe has written the whole conversation and the
\* server accepted the random recipient
C27_Witness ==
    /\ sess.kind = "catchall"
    /\ sess.written = Conversation(sess.email)
    /\ sess.stage = "done"
    /\ sess.resolved /\ sess.result = CatchAll(TRUE, "250", "")
    /\ cause = lastEv

\* C28: in stage greet a chunk whose last line begins with a 3-digit reply
\* code, a 4xx or 5xx code included, makes the session write HELO localhost
\* and move to stage helo and does nothing else to it (it resolves nothing);
\* a chunk whose last line does not begin with a 3-digit code leaves the
\* session as it was, at every stage
C28_GreetAnyCode ==
    [][lastEv'.ev = "data" =>
          /\ (lastEv'.stage = "greet" /\ IsReply(lastEv'.line)) =>
                sess' = [sess EXCEPT !.stage = "helo",
                                     !.written = Append(@, "HELO localhost\r\n")]
          /\ ~IsReply(lastEv'.line) => sess' = sess]_vars

\* C28 witness: the banner was a 5xx reply; HELO is written and the session
\* waits, unresolved, in stage helo
C28_Witness ==
    /\ lastEv.ev = "data" /\ lastEv.stage = "greet"
    /\ IsReply(lastEv.line) /\ lastEv.line[1] = "5"
    /\ sess.stage = "helo"
    /\ sess.written = <<"HELO localhost\r\n">>
    /\ ~sess.resolved /\ sess.open /\ sess.timer = "armed"

\* the event is a reply other than 250 received in stage helo or mailfrom
EarlyNot250(e) ==
    /\ e.ev = "data"
    /\ e.stage \in {"helo", "mailfrom"}
    /\ IsReply(e.line)
    /\ ~Begins(e.line, "2", "5", "0")

\* C29 as claimed: in stage helo or mailfrom every reply whose code is not
\* 250 is non-advancing: the session stays in its stage, writes no command
\* and is not resolved by the reply, so a session that resolves in one of
\* these stages is resolved by its timer, a socket error or the end of the
\* connection
C29_Not250Stalls ==
    /\ [][EarlyNot250(lastEv') =>
              /\ sess'.stage = sess.stage
              /\ sess'.written = sess.written
              /\ sess'.resolved = sess.resolved]_vars
    /\ []((sess.resolved /\ cause.stage \in {"helo", "mailfrom"})
              => cause.ev \in {"timer", "error", "end"})

\* the result of an early rejection with the code of the line
RejectedEarly(kind, line) ==
    IF kind = "mailbox"
    THEN Unknown(line[1] \o line[2] \o line[3])
    ELSE CatchAll(FALSE, line[1] \o line[2] \o line[3], "rejected_early")

\* C29 amended: in stage helo or mailfrom a reply whose code is not 250 and
\* does not begin with 5 is non-advancing and changes nothing; a reply whose
\* code begins with 5 writes no command either, but ends the conversation:
\* the stage becomes done and an unresolved session resolves at once with
\* the code of the reply (unknown, or rejected_early in the catch-all
\* probe); so a session that resolves in one of these stages is resolved by
\* its timer, a socket error, the end of the connection or a 5xx reply
C29_Only5xxEndsEarly ==
    /\ [][(EarlyNot250(lastEv') /\ lastEv'.line[1] # "5") => sess' = sess]_vars
    /\ [][(EarlyNot250(lastEv') /\ lastEv'.line[1] = "5") =>
              /\ sess'.stage = "done"
              /\ sess'.written = sess.written
              /\ sess'.resolved
              /\ ~sess.resolved => /\ sess'.result = RejectedEarly(sess.kind, lastEv'.line)
                                   /\ ~sess'.open
              /\ sess.resolved => sess'.result = sess.result]_vars
    /\ []((sess.resolved /\ cause.stage \in {"helo", "mailfrom"})
              => \/ cause.ev \in {"timer", "error", "end"}
                 \/ EarlyNot250(cause) /\ cause.line[1] = "5")

\* C29 witness: a 4xx reply to MAIL FROM left the session waiting in stage
\* mailfrom
C29_Witness ==
    /\ EarlyNot250(lastEv) /\ lastEv.stage = "mailfrom" /\ lastEv.line[1] = "4"
    /\ sess.stage = "mailfrom"
    /\ Len(sess.written) = 2
    /\ ~sess.resolved /\ sess.timer = "armed"

\* the reply is taken by one of the rules that come before the early
\* rejection: the greeting (any code), a 250 in stage helo or mailfrom, or
\* one of the classifications of stage rcpt
OtherwiseClassified(e) ==
    \/ e.stage = "greet"
    \/ e.stage \in {"helo", "mailfrom"} /\ Begins(e.line, "2", "5", "0")
    \/ Accepting(e) \/ Rejecting(e) \/ Deferring(e)

C31_ProbesTerminate ==
    /\ [](calls[SeqCall].pc = "probing" =>
              (calls[SeqCall].s.resolved <=> calls[SeqCall].s.timer # "armed"))
    /\ [](calls[SeqCall].opened <= Len(calls[SeqCall].mxHosts))
    /\ (calls[SeqCall].pc = "probing") ~> calls[SeqCall].s.resolved
    /\ (calls[SeqCall].pc \in {"dns", "probing"}) ~> (calls[SeqCall].pc = "done")

\* C31 witness: the servers of both MX hosts stalled, both timers fired,
\* and checkCatchAll returned after two sessions
C31_Witness ==
    /\ ~IsProbe
    /\ calls[SeqCall].pc = "done"
    /\ calls[SeqCall].result = CouldNotConnect
    /\ Len(calls[SeqCall].mxHosts) = 2 /\ calls[SeqCall].opened = 2
    /\ calls[SeqCall].contacted[1].outcome = CatchAll(FALSE, NoCode, "timeout")
    /\ calls[SeqCall].s.timer = "fired"
    /\ calls[SeqCall].s.stage = "mailfrom"

(***************************************************************************)
(* Properties of the two probes side by side (SpecPair).                   *)
(***************************************************************************)
\* the catch-all outcome that reads the mailbox outcome r
Interprets(c, r) ==
    CASE r.status = "pending" -> c.error = "pending"
      [] r.status = "valid"   -> c.accepts /\ c.error = ""
      [] r.status = "invalid" -> ~c.accepts /\ c.error = ""
      [] r.status = "unknown" -> ~c.accepts /\ c.error # ""

\* C32: given the same replies and socket and timer events, the catch-all
\* probe and the mailbox probe have written the same commands in the same
\* order, are in the same stage and have resolved at the same event, and
\* their outcomes differ only in interpretation: valid is accepts, invalid
\* is a definitive reject, unknown is an error
C32_SameStateMachine ==
    run.pc = "pair" =>
        /\ run.probe.written = run.mailbox.written
        /\ run.probe.stage = run.mailbox.stage
        /\ run.probe.resolved = run.mailbox.resolved
        /\ run.probe.timer = run.mailbox.timer
        /\ run.probe.result.code = run.mailbox.result.code
        /\ Interprets(run.probe.result, run.mailbox.result)

(***************************************************************************)
(* Properties of checkCatchAll's reading of the RCPT reply (SpecCatchAll). *)
(***************************************************************************)
\* the 5xx codes of the servers' replies
PermanentCodes == {"550", "551", "552", "553"}

\* the session's outcome comes from a 5xx reply to RCPT TO (an early
\* rejection, in a stage before rcpt, carries the error rejected_early)
RcptRefused(o) == o.code \in PermanentCodes /\ o.error \in {"", "unexpected_response"}

\* C33: a 250 reply to RCPT TO for the random address makes the call
\* return isCatchAll true, and every reply to RCPT TO whose code begins
\* with 5 makes the call conclude on that host: it contacts no later host
\* and returns isCatchAll false with confidence high
C33_Any5xxConcludes ==
    \A c \in DOMAIN calls :
        LET k == calls[c]
        IN  (k.pc = "done" /\ k.s.kind = "catchall") =>
                \A j \in 1..Len(k.contacted) :
                    /\ k.contacted[j].outcome.accepts =>
                            k.result.isCatchAll /\ k.result.confidence = "high"
                    /\ RcptRefused(k.contacted[j].outcome) =>
                            /\ j = Len(k.contacted)
                            /\ ~k.result.isCatchAll
                            /\ k.result.confidence = "high"

(***************************************************************************)
(* Properties of the lookups of probeSmtp (SpecProbe).                     *)
(***************************************************************************)
\* C34: the only DNS lookup a probeSmtp call issues for its domain is the
\* MX lookup; no TXT, A or AAAA lookup is issued on behalf of the probe
C34_MxOnlyLookup ==
    \A c \in CallIds : calls[c].queries \subseteq {"MX"}

(***************************************************************************)
(* Properties of the running score (SpecVerify).                           *)
(***************************************************************************)
\* the sum of the weights named by a history of deductions
RECURSIVE SumOfWeights(_, _)
SumOfWeights(weights, names) ==
    IF names = <<>> THEN 0 ELSE weights[Head(names)] + SumOfWeights(weights, Tail(names))

\* the sum of the impact fields of a breakdown
RECURSIVE SumOfImpacts(_)
SumOfImpacts(items) ==
    IF items = <<>> THEN 0 ELSE Head(items).impact + SumOfImpacts(Tail(items))

\* the confidence a score clamped after each deduction would end with
RECURSIVE ClampedPerStep(_, _, _)
ClampedPerStep(score, weights, names) ==
    IF names = <<>> THEN clampScore(score)
    ELSE ClampedPerStep(pts(clampScore(score - weights[Head(names)])), weights, Tail(names))

\* the breakdown items of the deductions: those with an impact (an item is
\* pushed with `passed: true` and impact 0 for a check that deducts
\* nothing; the plus addressing, SMTP unknown and catch-all deductions are
\* pushed as passed too, with their weight as impact)
Deductions(items) == SelectSeq(items, LAMBDA item : item.impact # 0)

\* C35: in a validation that passed the gate the running score is 100 less
\* the weights of the signals triggered so far, never clamped on the way,
\* and the confidence returned is clampScore of the final score; with
\* details the breakdown has one item per deduction, in order, with the
\* negated weight as impact, its other items have impact 0 and are marked
\* passed, and the confidence is clampScore(100 + the sum of the impacts)
C35_ClampedOnce ==
    run.passedGate =>
        /\ run.score = pts(100) - SumOfWeights(run.weights, run.applied)
        /\ run.pc = "done" =>
              /\ run.result.confidence = clampScore(pts(100) - SumOfWeights(run.weights, run.applied))
              /\ run.runOptions.includeDetails =>
                    LET items == run.result.scoreBreakdown
                        failed == Deductions(items)
                    IN  /\ Len(failed) = Len(run.applied)
                        /\ \A i \in 1..Len(failed) :
                                failed[i].impact = 0 - run.weights[run.applied[i]]
                        /\ \A i \in 1..Len(items) : ~items[i].passed => items[i].impact # 0
                        /\ run.result.confidence = clampScore(pts(100) + SumOfImpacts(items))

\* C35 witness: under the mixed weights a domain without MX and SPF records
\* scored 100 - 150 + 80 = 30, where clamping after each deduction gives 80
C35_Witness ==
    /\ run.pc = "done" /\ run.passedGate
    /\ run.options = MixedWeights
    /\ run.applied = <<"noMx", "noSpf">>
    /\ run.result.confidence = 30
    /\ ClampedPerStep(pts(100), run.weights, run.applied) = 80
    /\ Len(run.result.scoreBreakdown) > 2

(***************************************************************************)
(* Properties of the code probeSmtp reports (SpecVerify).                  *)
(***************************************************************************)
\* the result carries a code only with status valid or invalid, or the
\* literal rate_limited with status unknown
CodeOnlyWhenDefinitive(r) ==
    r.code # NoCode =>
        \/ r.status \in {"valid", "invalid"}
        \/ r.status = "unknown" /\ r.code = "rate_limited"

\* C36: probeSmtp returns a code only with status valid or invalid, or
\* rate_limited with unknown when the limiter denied the call; when the
\* session of every MX host ended unknown, with or without a reply code,
\* it returns unknown without a code; so checks.smtp.code of a validation
\* never holds the code of an indeterminate reply
C36_NoIndeterminateCode ==
    /\ LET k == calls[SeqCall]
       IN  (k.s.kind = "mailbox" /\ k.pc = "done") =>
              /\ CodeOnlyWhenDefinitive(k.result)
              /\ k.result = RateLimited => ~k.admitted
              /\ (k.admitted /\ \A j \in 1..Len(k.contacted) :
                                    k.contacted[j].outcome.status = "unknown")
                    => k.result = Unknown(NoCode)
    /\ CodeOnlyWhenDefinitive(run.checks.smtp)
    /\ run.pc = "done" => CodeOnlyWhenDefinitive(run.result.checks.smtp)

\* C36 witness: the one MX host deferred the recipient with 450, and the
\* probe of the validation returned unknown without the code
C36_Witness ==
    /\ run.pc = "smtp"
    /\ calls[SeqCall].pc = "done" /\ calls[SeqCall].admitted
    /\ Len(calls[SeqCall].contacted) = 1
    /\ calls[SeqCall].contacted[1].outcome = Unknown("450")
    /\ calls[SeqCall].result = Unknown(NoCode)

\* a complete ResolveResult: `{ ok: true, records }` or `{ ok: false, error }`
Envelope(d) ==
    /\ DOMAIN d \in {{"ok", "records"}, {"ok", "error"}}
    /\ d.ok <=> "records" \in DOMAIN d

\* the lookup of call c for lk is answered by its own query in this step
SettlesOwn(c, lk) == dns[c].p[lk] = PendingP /\ dns'[c].p[lk] # PendingP

\* C37: two checkDNS calls sharing one DnsCache: a call that finds no entry
\* of a key sends its own query, be a query of the other call for the key
\* in flight or not; a query that settles writes its complete envelope, and
\* nothing else writes an entry; the entry of a key is always the envelope
\* of the query of the key that settled last; and the cache never holds
\* more than maxEntries entries
C37_ConcurrentMisses ==
    [][ /\ \A c \in DnsPair, lk \in LookupSet :
            LET key == keyOf(lk, DnsDomain)
            IN  /\ (dns[c].pc = "idle" /\ dns'[c].pc = "waiting"
                        /\ issued(dns'[c].opts, lk) /\ ~has(store, key)) =>
                      /\ dns'[c].p[lk] = PendingP
                      /\ queries'[key] = queries[key] + 1
                /\ SettlesOwn(c, lk) =>
                      /\ dns'[c].p[lk].state = "fulfilled"
                      /\ Envelope(dns'[c].p[lk].value)
                      /\ has(store', key)
                      /\ entryOf(store', key).data = dns'[c].p[lk].value
                /\ (has(store', key)
                        /\ (~has(store, key) \/ entryOf(store', key) # entryOf(store, key))) =>
                      \E w \in DnsPair : SettlesOwn(w, lk)
        /\ \A i \in 1..Len(store') : Envelope(store'[i].data)
        /\ \A key \in DnsKeys :
              has(store', key) => entryOf(store', key).data = completed'[key].env
        /\ Len(store') <= MaxEntries
      ]_vars

\* C37 witness: both calls missed the MX key and sent a query each; the
\* query of d1 ended with records, that of d2 timed out later, and the
\* cache holds the timeout
C37_Witness ==
    /\ dns["d1"].how["mx"] = "records" /\ dns["d1"].p["mx"].value.ok
    /\ dns["d2"].how["mx"] = "timeout" /\ ~dns["d2"].p["mx"].value.ok
    /\ has(store, keyOf("mx", DnsDomain))
    /\ entryOf(store, keyOf("mx", DnsDomain)).data = ResolveErr("DNS timeout")
    /\ dns["d1"].pc = "waiting" /\ dns["d2"].pc = "waiting"

\* the call's options disable the MX lookup of its DNS stage
MxLookupOff == "dns.mx" \in DOMAIN run.options /\ ~run.options["dns.mx"]

\* the DNS stage of the call returned at least one MX host
DnsGaveMxHosts == run.dnsResult.hasMxHosts /\ Len(run.dnsResult.mxHosts) > 0

\* the catch-all stage of the call has left a mark: it is under way, has
\* looked up or connected, is reported, traced or scored
CatchAllRan ==
    \/ run.pc = "catchAll"
    \/ run.io.catchAllQueries # {}
    \/ CatchAllOpened > 0
    \/ ReportedChecks.catchAll # Null
    \/ Applied("catchAll")
    \/ Traced("catchAll")

\* C38: the catch-all stage of a call runs only with catchAll.enabled true
\* and at least one MX host returned by the DNS stage of the call; with
\* dns.mx disabled or no MX record found, no catch-all connection is made,
\* checks.catchAll is absent and the catch-all weight is not applied even
\* with catchAll.enabled true; and no step into, within or out of the
\* catch-all stage asks the limiter
C38_CatchAllNeedsMxHosts ==
    [][ /\ CatchAllRan' =>
              (resolveOptions(run.options).catchAllEnabled /\ DnsGaveMxHosts)'
        /\ MxLookupOff' => ~CatchAllRan'
        /\ (run.pc = "catchAll" \/ run'.pc = "catchAll") =>
              /\ limiter' = limiter
              /\ lastAllow' = lastAllow
              /\ run'.io.allowCalls = run.io.allowCalls
      ]_vars

\* C38 witness: with every stage on but dns.mx, the SMTP probe of the call
\* found and contacted an MX host, and the call returned without a
\* catch-all check
C38_Witness ==
    /\ run.pc = "done" /\ run.passedGate
    /\ resolveOptions(run.options).catchAllEnabled
    /\ MxLookupOff
    /\ run.io.smtpOpened > 0
    /\ run.io.catchAllOpened = 0
    /\ run.result.checks.catchAll = Null
    /\ ~Applied("catchAll")

\* what the claim compares of a returned result
Outcome(res) ==
    [verdict |-> res.verdict, confidence |-> res.confidence, reasons |-> res.reasons,
     checks |-> res.checks]

\* C39: the run flags do not influence the outcome.  The same email under
\* the same options apart from output, with DNS, SMTP servers, cache and
\* limiter behaving alike, goes through verifyEmail with output basic,
\* verifyEmail with output full and debugVerifyEmail stage by stage alike:
\* the three are at the same await, have run the same DNS queries, limiter
\* admissions and SMTP connections, hold the same score, reasons and checks,
\* and return equal verdict, confidence, reasons and checks; the basic
\* result has none of intelligence, risks, scoreBreakdown
C39_RunFlagsInert ==
    /\ \A other \in {run.full, run.debug} :
          /\ other.pc = run.pc
          /\ other.io = run.io
          /\ other.score = run.score /\ other.reasons = run.reasons /\ other.checks = run.checks
          /\ other.applied = run.applied
          /\ run.pc = "done" => Outcome(other.result) = Outcome(run.result)
          /\ run.pc = "done" => DetailFields \subseteq DOMAIN other.result
    /\ run.pc = "done" => DOMAIN run.result \cap DetailFields = {}

\* C39 witness: a flagged address went through both probes; the basic
\* result is risky or worse without details, the full one carries the score
\* items and the debug call the trace
C39_Witness ==
    /\ run.pc = "done" /\ run.passedGate
    /\ run.io.smtpOpened > 0 /\ run.io.catchAllOpened > 0
    /\ Len(run.applied) > 2
    /\ run.result.verdict = run.debug.result.verdict
    /\ run.risks = <<>> /\ run.trace = <<>>
    /\ Len(run.full.result.scoreBreakdown) > 2 /\ run.full.trace = <<>>
    /\ Len(run.debug.result.risks) > 2 /\ Len(run.debug.trace) > 2

\* the entries of the BatchResult of the given kind: successful counts the
\* entries with a result, failed those with an error
Counted(kind) == Cardinality({i \in 1..Len(job.results) : job.results[i].kind = kind})

\* C40: for every list of emails and every integer concurrency,
\* verifyEmailBatch terminates and returns one result entry per email in
\* input order, with total = emails.length = successful + failed, having
\* called onProgress once per email with completed going from 1 to
\* emails.length
C40_BatchReturnsAll ==
    /\ [](job.pc = "done" =>
              /\ Len(job.results) = job.total
              /\ \A i \in 1..job.total : job.results[i].email = i
              /\ Counted("result") + Counted("error") = job.total
              /\ job.progress = [i \in 1..job.total |-> i])
    /\ (job.pc \in {"loop", "join"}) ~> (job.pc = "done")


====
